---------------------------- MODULE Spec2Model ----------------------------
(***************************************************************************)
(* The txtx runbook grammar (crates/tree-sitter-txtx/src/parser.c): the    *)
(* lexer automaton ts_lex, the LR parse tables and the field maps, run by  *)
(* a shift/reduce driver over bounded input texts.                         *)
(***************************************************************************)
EXTENDS Integers, Sequences, FiniteSets, TLC

VARIABLES input, doc, position, stack, next_token, status, tree, other

vars == <<input, doc, position, stack, next_token, status, tree, other>>

(***************************************************************************)
(* Characters.  A text is a string; the lexer reads it one character code  *)
(* at a time, 0 standing for the end of the text.                          *)
(***************************************************************************)
ASCII_32_95 == " !\"#$%&'()*+,-./0123456789:;<=>?@ABCDEFGHIJKLMNOPQRSTUVWXYZ[\\]^_"

ASCII_97_126 == "abcdefghijklmnopqrstuvwxyz{|}~"

CharCode ==
     [c \in {SubSeq(ASCII_32_95, i, i) : i \in 1..Len(ASCII_32_95)} |->
        31 + (CHOOSE i \in 1..Len(ASCII_32_95) : SubSeq(ASCII_32_95, i, i) = c)]
  @@ [c \in {SubSeq(ASCII_97_126, i, i) : i \in 1..Len(ASCII_97_126)} |->
        96 + (CHOOSE i \in 1..Len(ASCII_97_126) : SubSeq(ASCII_97_126, i, i) = c)]
  @@ ("\t" :> 9) @@ ("\n" :> 10) @@ ("\r" :> 13)

Ch(c) == CharCode[c]

(***************************************************************************)
(* The lexer macros of ts_lex.                                             *)
(***************************************************************************)
ADVANCE(state_value) == [op |-> "ADVANCE", state |-> state_value]

SKIP(state_value) == [op |-> "SKIP", state |-> state_value]

END_STATE == [op |-> "END_STATE", state |-> 0]

NO_ACCEPT == "none"

ACCEPT_TOKEN(symbol_value) == symbol_value

(***************************************************************************)
(* ts_lex, one CASE arm per `case` of the switch.  Each arm gives the      *)
(* token the state accepts (ACCEPT_TOKEN) and where the first matching     *)
(* `if` leads.                                                             *)
(***************************************************************************)
ts_lex_0_10(state, lookahead, eof) ==
  CASE state = 0 ->
       [accept |-> NO_ACCEPT,
        next |-> IF eof THEN ADVANCE(47)
                 ELSE IF lookahead = Ch("\"") THEN ADVANCE(66)
                 ELSE IF lookahead = Ch("#") THEN ADVANCE(141)
                 ELSE IF lookahead = Ch("'") THEN ADVANCE(70)
                 ELSE IF lookahead = Ch("(") THEN ADVANCE(91)
                 ELSE IF lookahead = Ch(")") THEN ADVANCE(92)
                 ELSE IF lookahead = Ch("*") THEN ADVANCE(93)
                 ELSE IF lookahead = Ch("+") THEN ADVANCE(95)
                 ELSE IF lookahead = Ch(",") THEN ADVANCE(87)
                 ELSE IF lookahead = Ch("-") THEN ADVANCE(96)
                 ELSE IF lookahead = Ch(".") THEN ADVANCE(90)
                 ELSE IF lookahead = Ch("/") THEN ADVANCE(94)
                 ELSE IF lookahead = Ch("0") THEN ADVANCE(81)
                 ELSE IF lookahead = Ch(":") THEN ADVANCE(89)
                 ELSE IF lookahead = Ch("=") THEN ADVANCE(60)
                 ELSE IF lookahead = Ch("[") THEN ADVANCE(86)
                 ELSE IF lookahead = Ch("]") THEN ADVANCE(88)
                 ELSE IF lookahead = Ch("a") THEN ADVANCE(101)
                 ELSE IF lookahead = Ch("f") THEN ADVANCE(97)
                 ELSE IF lookahead = Ch("i") THEN ADVANCE(115)
                 ELSE IF lookahead = Ch("n") THEN ADVANCE(137)
                 ELSE IF lookahead = Ch("o") THEN ADVANCE(136)
                 ELSE IF lookahead = Ch("s") THEN ADVANCE(108)
                 ELSE IF lookahead = Ch("t") THEN ADVANCE(126)
                 ELSE IF lookahead = Ch("v") THEN ADVANCE(99)
                 ELSE IF lookahead = Ch("{") THEN ADVANCE(63)
                 ELSE IF lookahead = Ch("}") THEN ADVANCE(64)
                 ELSE IF lookahead = Ch("\t") \/ lookahead = Ch("\n") \/ lookahead = Ch("\r") \/ lookahead = Ch(" ") THEN SKIP(0)
                 ELSE IF (Ch("1") <= lookahead /\ lookahead <= Ch("9")) THEN ADVANCE(82)
                 ELSE IF (Ch("A") <= lookahead /\ lookahead <= Ch("Z")) \/ lookahead = Ch("_") \/ (Ch("b") <= lookahead /\ lookahead <= Ch("z")) THEN ADVANCE(140)
                 ELSE END_STATE]
    [] state = 1 ->
       [accept |-> NO_ACCEPT,
        next |-> IF lookahead = Ch("\"") THEN ADVANCE(66)
                 ELSE IF lookahead = Ch("#") THEN ADVANCE(141)
                 ELSE IF lookahead = Ch("'") THEN ADVANCE(70)
                 ELSE IF lookahead = Ch("(") THEN ADVANCE(91)
                 ELSE IF lookahead = Ch("*") THEN ADVANCE(93)
                 ELSE IF lookahead = Ch("+") THEN ADVANCE(95)
                 ELSE IF lookahead = Ch(",") THEN ADVANCE(87)
                 ELSE IF lookahead = Ch("-") THEN ADVANCE(96)
                 ELSE IF lookahead = Ch(".") THEN ADVANCE(90)
                 ELSE IF lookahead = Ch("/") THEN ADVANCE(94)
                 ELSE IF lookahead = Ch("[") THEN ADVANCE(86)
                 ELSE IF lookahead = Ch("}") THEN ADVANCE(64)
                 ELSE IF lookahead = Ch("\t") \/ lookahead = Ch("\n") \/ lookahead = Ch("\r") \/ lookahead = Ch(" ") THEN SKIP(1)
                 ELSE IF (Ch("A") <= lookahead /\ lookahead <= Ch("Z")) \/ lookahead = Ch("_") \/ (Ch("a") <= lookahead /\ lookahead <= Ch("z")) THEN ADVANCE(140)
                 ELSE END_STATE]
    [] state = 2 ->
       [accept |-> NO_ACCEPT,
        next |-> IF lookahead = Ch("\"") THEN ADVANCE(66)
                 ELSE IF lookahead = Ch("#") THEN ADVANCE(141)
                 ELSE IF lookahead = Ch("'") THEN ADVANCE(70)
                 ELSE IF lookahead = Ch(")") THEN ADVANCE(92)
                 ELSE IF lookahead = Ch(",") THEN ADVANCE(87)
                 ELSE IF lookahead = Ch("/") THEN ADVANCE(8)
                 ELSE IF lookahead = Ch("0") THEN ADVANCE(81)
                 ELSE IF lookahead = Ch("[") THEN ADVANCE(86)
                 ELSE IF lookahead = Ch("]") THEN ADVANCE(88)
                 ELSE IF lookahead = Ch("f") THEN ADVANCE(97)
                 ELSE IF lookahead = Ch("n") THEN ADVANCE(137)
                 ELSE IF lookahead = Ch("t") THEN ADVANCE(126)
                 ELSE IF lookahead = Ch("{") THEN ADVANCE(63)
                 ELSE IF lookahead = Ch("\t") \/ lookahead = Ch("\n") \/ lookahead = Ch("\r") \/ lookahead = Ch(" ") THEN SKIP(2)
                 ELSE IF (Ch("1") <= lookahead /\ lookahead <= Ch("9")) THEN ADVANCE(82)
                 ELSE IF (Ch("A") <= lookahead /\ lookahead <= Ch("Z")) \/ lookahead = Ch("_") \/ (Ch("a") <= lookahead /\ lookahead <= Ch("z")) THEN ADVANCE(140)
                 ELSE END_STATE]
    [] state = 3 ->
       [accept |-> NO_ACCEPT,
        next |-> IF lookahead = Ch("\"") THEN ADVANCE(74)
                 ELSE END_STATE]
    [] state = 4 ->
       [accept |-> NO_ACCEPT,
        next |-> IF lookahead = Ch("\"") THEN ADVANCE(5)
                 ELSE IF lookahead = Ch("#") THEN ADVANCE(141)
                 ELSE IF lookahead = Ch("/") THEN ADVANCE(77)
                 ELSE IF lookahead = Ch("\t") \/ lookahead = Ch("\n") \/ lookahead = Ch("\r") \/ lookahead = Ch(" ") THEN ADVANCE(76)
                 ELSE IF lookahead # 0 THEN ADVANCE(75)
                 ELSE END_STATE]
    [] state = 5 ->
       [accept |-> NO_ACCEPT,
        next |-> IF lookahead = Ch("\"") THEN ADVANCE(78)
                 ELSE IF lookahead # 0 THEN ADVANCE(75)
                 ELSE END_STATE]
    [] state = 6 ->
       [accept |-> NO_ACCEPT,
        next |-> IF lookahead = Ch("\"") THEN ADVANCE(65)
                 ELSE IF lookahead = Ch("#") THEN ADVANCE(141)
                 ELSE IF lookahead = Ch("/") THEN ADVANCE(8)
                 ELSE IF lookahead = Ch("\t") \/ lookahead = Ch("\n") \/ lookahead = Ch("\r") \/ lookahead = Ch(" ") THEN SKIP(6)
                 ELSE END_STATE]
    [] state = 7 ->
       [accept |-> NO_ACCEPT,
        next |-> IF lookahead = Ch("#") THEN ADVANCE(142)
                 ELSE IF lookahead = Ch("*") THEN ADVANCE(159)
                 ELSE IF lookahead = Ch("/") THEN ADVANCE(10)
                 ELSE IF lookahead = Ch("\t") \/ lookahead = Ch("\n") \/ lookahead = Ch("\r") \/ lookahead = Ch(" ") THEN ADVANCE(7)
                 ELSE IF lookahead # 0 THEN ADVANCE(9)
                 ELSE END_STATE]
    [] state = 8 ->
       [accept |-> NO_ACCEPT,
        next |-> IF lookahead = Ch("*") THEN ADVANCE(154)
                 ELSE IF lookahead = Ch("/") THEN ADVANCE(149)
                 ELSE END_STATE]
    [] state = 9 ->
       [accept |-> NO_ACCEPT,
        next |-> IF lookahead = Ch("*") THEN ADVANCE(159)
                 ELSE IF lookahead # 0 THEN ADVANCE(9)
                 ELSE END_STATE]
    [] state = 10 ->
       [accept |-> NO_ACCEPT,
        next |-> IF lookahead = Ch("*") THEN ADVANCE(155)
                 ELSE IF lookahead = Ch("/") THEN ADVANCE(150)
                 ELSE IF lookahead # 0 THEN ADVANCE(9)
                 ELSE END_STATE]

ts_lex_11_62(state, lookahead, eof) ==
  CASE state = 11 ->
       [accept |-> NO_ACCEPT,
        next |-> IF lookahead = Ch("a") THEN ADVANCE(34)
                 ELSE END_STATE]
    [] state = 12 ->
       [accept |-> NO_ACCEPT,
        next |-> IF lookahead = Ch("a") THEN ADVANCE(13)
                 ELSE END_STATE]
    [] state = 13 ->
       [accept |-> NO_ACCEPT,
        next |-> IF lookahead = Ch("b") THEN ADVANCE(22)
                 ELSE END_STATE]
    [] state = 14 ->
       [accept |-> NO_ACCEPT,
        next |-> IF lookahead = Ch("c") THEN ADVANCE(39)
                 ELSE IF lookahead = Ch("d") THEN ADVANCE(15)
                 ELSE END_STATE]
    [] state = 15 ->
       [accept |-> NO_ACCEPT,
        next |-> IF lookahead = Ch("d") THEN ADVANCE(28)
                 ELSE END_STATE]
    [] state = 16 ->
       [accept |-> NO_ACCEPT,
        next |-> IF lookahead = Ch("e") THEN ADVANCE(56)
                 ELSE END_STATE]
    [] state = 17 ->
       [accept |-> NO_ACCEPT,
        next |-> IF lookahead = Ch("e") THEN ADVANCE(33)
                 ELSE END_STATE]
    [] state = 18 ->
       [accept |-> NO_ACCEPT,
        next |-> IF lookahead = Ch("g") THEN ADVANCE(24)
                 ELSE END_STATE]
    [] state = 19 ->
       [accept |-> NO_ACCEPT,
        next |-> IF lookahead = Ch("i") THEN ADVANCE(18)
                 ELSE END_STATE]
    [] state = 20 ->
       [accept |-> NO_ACCEPT,
        next |-> IF lookahead = Ch("i") THEN ADVANCE(12)
                 ELSE END_STATE]
    [] state = 21 ->
       [accept |-> NO_ACCEPT,
        next |-> IF lookahead = Ch("i") THEN ADVANCE(29)
                 ELSE END_STATE]
    [] state = 22 ->
       [accept |-> NO_ACCEPT,
        next |-> IF lookahead = Ch("l") THEN ADVANCE(16)
                 ELSE END_STATE]
    [] state = 23 ->
       [accept |-> NO_ACCEPT,
        next |-> IF lookahead = Ch("m") THEN ADVANCE(30)
                 ELSE IF lookahead = Ch("n") THEN ADVANCE(31)
                 ELSE END_STATE]
    [] state = 24 ->
       [accept |-> NO_ACCEPT,
        next |-> IF lookahead = Ch("n") THEN ADVANCE(17)
                 ELSE END_STATE]
    [] state = 25 ->
       [accept |-> NO_ACCEPT,
        next |-> IF lookahead = Ch("n") THEN ADVANCE(48)
                 ELSE END_STATE]
    [] state = 26 ->
       [accept |-> NO_ACCEPT,
        next |-> IF lookahead = Ch("n") THEN ADVANCE(52)
                 ELSE END_STATE]
    [] state = 27 ->
       [accept |-> NO_ACCEPT,
        next |-> IF lookahead = Ch("o") THEN ADVANCE(35)
                 ELSE END_STATE]
    [] state = 28 ->
       [accept |-> NO_ACCEPT,
        next |-> IF lookahead = Ch("o") THEN ADVANCE(25)
                 ELSE END_STATE]
    [] state = 29 ->
       [accept |-> NO_ACCEPT,
        next |-> IF lookahead = Ch("o") THEN ADVANCE(26)
                 ELSE END_STATE]
    [] state = 30 ->
       [accept |-> NO_ACCEPT,
        next |-> IF lookahead = Ch("p") THEN ADVANCE(27)
                 ELSE END_STATE]
    [] state = 31 ->
       [accept |-> NO_ACCEPT,
        next |-> IF lookahead = Ch("p") THEN ADVANCE(42)
                 ELSE END_STATE]
    [] state = 32 ->
       [accept |-> NO_ACCEPT,
        next |-> IF lookahead = Ch("p") THEN ADVANCE(43)
                 ELSE END_STATE]
    [] state = 33 ->
       [accept |-> NO_ACCEPT,
        next |-> IF lookahead = Ch("r") THEN ADVANCE(50)
                 ELSE END_STATE]
    [] state = 34 ->
       [accept |-> NO_ACCEPT,
        next |-> IF lookahead = Ch("r") THEN ADVANCE(20)
                 ELSE END_STATE]
    [] state = 35 ->
       [accept |-> NO_ACCEPT,
        next |-> IF lookahead = Ch("r") THEN ADVANCE(37)
                 ELSE END_STATE]
    [] state = 36 ->
       [accept |-> NO_ACCEPT,
        next |-> IF lookahead = Ch("t") THEN ADVANCE(58)
                 ELSE END_STATE]
    [] state = 37 ->
       [accept |-> NO_ACCEPT,
        next |-> IF lookahead = Ch("t") THEN ADVANCE(61)
                 ELSE END_STATE]
    [] state = 38 ->
       [accept |-> NO_ACCEPT,
        next |-> IF lookahead = Ch("t") THEN ADVANCE(54)
                 ELSE END_STATE]
    [] state = 39 ->
       [accept |-> NO_ACCEPT,
        next |-> IF lookahead = Ch("t") THEN ADVANCE(21)
                 ELSE END_STATE]
    [] state = 40 ->
       [accept |-> NO_ACCEPT,
        next |-> IF lookahead = Ch("t") THEN ADVANCE(32)
                 ELSE END_STATE]
    [] state = 41 ->
       [accept |-> NO_ACCEPT,
        next |-> IF lookahead = Ch("u") THEN ADVANCE(40)
                 ELSE END_STATE]
    [] state = 42 ->
       [accept |-> NO_ACCEPT,
        next |-> IF lookahead = Ch("u") THEN ADVANCE(36)
                 ELSE END_STATE]
    [] state = 43 ->
       [accept |-> NO_ACCEPT,
        next |-> IF lookahead = Ch("u") THEN ADVANCE(38)
                 ELSE END_STATE]
    [] state = 44 ->
       [accept |-> NO_ACCEPT,
        next |-> IF (Ch("0") <= lookahead /\ lookahead <= Ch("9")) THEN ADVANCE(80)
                 ELSE END_STATE]
    [] state = 45 ->
       [accept |-> NO_ACCEPT,
        next |-> IF (Ch("0") <= lookahead /\ lookahead <= Ch("9")) \/ (Ch("A") <= lookahead /\ lookahead <= Ch("F")) \/ (Ch("a") <= lookahead /\ lookahead <= Ch("f")) THEN ADVANCE(79)
                 ELSE END_STATE]
    [] state = 46 ->
       [accept |-> NO_ACCEPT,
        next |-> IF eof THEN ADVANCE(47)
                 ELSE IF lookahead = Ch("\"") THEN ADVANCE(66)
                 ELSE IF lookahead = Ch("#") THEN ADVANCE(141)
                 ELSE IF lookahead = Ch("'") THEN ADVANCE(70)
                 ELSE IF lookahead = Ch("(") THEN ADVANCE(91)
                 ELSE IF lookahead = Ch(")") THEN ADVANCE(92)
                 ELSE IF lookahead = Ch("*") THEN ADVANCE(93)
                 ELSE IF lookahead = Ch("+") THEN ADVANCE(95)
                 ELSE IF lookahead = Ch(",") THEN ADVANCE(87)
                 ELSE IF lookahead = Ch("-") THEN ADVANCE(96)
                 ELSE IF lookahead = Ch(".") THEN ADVANCE(90)
                 ELSE IF lookahead = Ch("/") THEN ADVANCE(94)
                 ELSE IF lookahead = Ch(":") THEN ADVANCE(89)
                 ELSE IF lookahead = Ch("=") THEN ADVANCE(60)
                 ELSE IF lookahead = Ch("[") THEN ADVANCE(86)
                 ELSE IF lookahead = Ch("]") THEN ADVANCE(88)
                 ELSE IF lookahead = Ch("a") THEN ADVANCE(14)
                 ELSE IF lookahead = Ch("i") THEN ADVANCE(23)
                 ELSE IF lookahead = Ch("o") THEN ADVANCE(41)
                 ELSE IF lookahead = Ch("s") THEN ADVANCE(19)
                 ELSE IF lookahead = Ch("v") THEN ADVANCE(11)
                 ELSE IF lookahead = Ch("{") THEN ADVANCE(63)
                 ELSE IF lookahead = Ch("}") THEN ADVANCE(64)
                 ELSE IF lookahead = Ch("\t") \/ lookahead = Ch("\n") \/ lookahead = Ch("\r") \/ lookahead = Ch(" ") THEN SKIP(46)
                 ELSE END_STATE]
    [] state = 47 ->
       [accept |-> ACCEPT_TOKEN("ts_builtin_sym_end"),
        next |-> END_STATE]
    [] state = 48 ->
       [accept |-> ACCEPT_TOKEN("anon_sym_addon"),
        next |-> END_STATE]
    [] state = 49 ->
       [accept |-> ACCEPT_TOKEN("anon_sym_addon"),
        next |-> IF (Ch("0") <= lookahead /\ lookahead <= Ch("9")) \/ (Ch("A") <= lookahead /\ lookahead <= Ch("Z")) \/ lookahead = Ch("_") \/ (Ch("a") <= lookahead /\ lookahead <= Ch("z")) THEN ADVANCE(140)
                 ELSE END_STATE]
    [] state = 50 ->
       [accept |-> ACCEPT_TOKEN("anon_sym_signer"),
        next |-> END_STATE]
    [] state = 51 ->
       [accept |-> ACCEPT_TOKEN("anon_sym_signer"),
        next |-> IF (Ch("0") <= lookahead /\ lookahead <= Ch("9")) \/ (Ch("A") <= lookahead /\ lookahead <= Ch("Z")) \/ lookahead = Ch("_") \/ (Ch("a") <= lookahead /\ lookahead <= Ch("z")) THEN ADVANCE(140)
                 ELSE END_STATE]
    [] state = 52 ->
       [accept |-> ACCEPT_TOKEN("anon_sym_action"),
        next |-> END_STATE]
    [] state = 53 ->
       [accept |-> ACCEPT_TOKEN("anon_sym_action"),
        next |-> IF (Ch("0") <= lookahead /\ lookahead <= Ch("9")) \/ (Ch("A") <= lookahead /\ lookahead <= Ch("Z")) \/ lookahead = Ch("_") \/ (Ch("a") <= lookahead /\ lookahead <= Ch("z")) THEN ADVANCE(140)
                 ELSE END_STATE]
    [] state = 54 ->
       [accept |-> ACCEPT_TOKEN("anon_sym_output"),
        next |-> END_STATE]
    [] state = 55 ->
       [accept |-> ACCEPT_TOKEN("anon_sym_output"),
        next |-> IF (Ch("0") <= lookahead /\ lookahead <= Ch("9")) \/ (Ch("A") <= lookahead /\ lookahead <= Ch("Z")) \/ lookahead = Ch("_") \/ (Ch("a") <= lookahead /\ lookahead <= Ch("z")) THEN ADVANCE(140)
                 ELSE END_STATE]
    [] state = 56 ->
       [accept |-> ACCEPT_TOKEN("anon_sym_variable"),
        next |-> END_STATE]
    [] state = 57 ->
       [accept |-> ACCEPT_TOKEN("anon_sym_variable"),
        next |-> IF (Ch("0") <= lookahead /\ lookahead <= Ch("9")) \/ (Ch("A") <= lookahead /\ lookahead <= Ch("Z")) \/ lookahead = Ch("_") \/ (Ch("a") <= lookahead /\ lookahead <= Ch("z")) THEN ADVANCE(140)
                 ELSE END_STATE]
    [] state = 58 ->
       [accept |-> ACCEPT_TOKEN("anon_sym_input"),
        next |-> END_STATE]
    [] state = 59 ->
       [accept |-> ACCEPT_TOKEN("anon_sym_input"),
        next |-> IF (Ch("0") <= lookahead /\ lookahead <= Ch("9")) \/ (Ch("A") <= lookahead /\ lookahead <= Ch("Z")) \/ lookahead = Ch("_") \/ (Ch("a") <= lookahead /\ lookahead <= Ch("z")) THEN ADVANCE(140)
                 ELSE END_STATE]
    [] state = 60 ->
       [accept |-> ACCEPT_TOKEN("anon_sym_EQ"),
        next |-> END_STATE]
    [] state = 61 ->
       [accept |-> ACCEPT_TOKEN("anon_sym_import"),
        next |-> END_STATE]
    [] state = 62 ->
       [accept |-> ACCEPT_TOKEN("anon_sym_import"),
        next |-> IF (Ch("0") <= lookahead /\ lookahead <= Ch("9")) \/ (Ch("A") <= lookahead /\ lookahead <= Ch("Z")) \/ lookahead = Ch("_") \/ (Ch("a") <= lookahead /\ lookahead <= Ch("z")) THEN ADVANCE(140)
                 ELSE END_STATE]

ts_lex_63_78(state, lookahead, eof) ==
  CASE state = 63 ->
       [accept |-> ACCEPT_TOKEN("anon_sym_LBRACE"),
        next |-> END_STATE]
    [] state = 64 ->
       [accept |-> ACCEPT_TOKEN("anon_sym_RBRACE"),
        next |-> END_STATE]
    [] state = 65 ->
       [accept |-> ACCEPT_TOKEN("anon_sym_DQUOTE"),
        next |-> END_STATE]
    [] state = 66 ->
       [accept |-> ACCEPT_TOKEN("anon_sym_DQUOTE"),
        next |-> IF lookahead = Ch("\"") THEN ADVANCE(3)
                 ELSE END_STATE]
    [] state = 67 ->
       [accept |-> ACCEPT_TOKEN("aux_sym_string_token1"),
        next |-> IF lookahead = Ch("#") THEN ADVANCE(144)
                 ELSE IF lookahead = Ch("/") THEN ADVANCE(68)
                 ELSE IF lookahead = Ch("\t") \/ lookahead = Ch("\n") \/ lookahead = Ch("\r") \/ lookahead = Ch(" ") THEN ADVANCE(67)
                 ELSE IF lookahead # 0 /\ lookahead # Ch("\"") THEN ADVANCE(69)
                 ELSE END_STATE]
    [] state = 68 ->
       [accept |-> ACCEPT_TOKEN("aux_sym_string_token1"),
        next |-> IF lookahead = Ch("*") THEN ADVANCE(157)
                 ELSE IF lookahead = Ch("/") THEN ADVANCE(152)
                 ELSE IF lookahead # 0 /\ lookahead # Ch("\"") THEN ADVANCE(69)
                 ELSE END_STATE]
    [] state = 69 ->
       [accept |-> ACCEPT_TOKEN("aux_sym_string_token1"),
        next |-> IF lookahead # 0 /\ lookahead # Ch("\"") THEN ADVANCE(69)
                 ELSE END_STATE]
    [] state = 70 ->
       [accept |-> ACCEPT_TOKEN("anon_sym_SQUOTE"),
        next |-> END_STATE]
    [] state = 71 ->
       [accept |-> ACCEPT_TOKEN("aux_sym_string_token2"),
        next |-> IF lookahead = Ch("#") THEN ADVANCE(145)
                 ELSE IF lookahead = Ch("/") THEN ADVANCE(72)
                 ELSE IF lookahead = Ch("\t") \/ lookahead = Ch("\n") \/ lookahead = Ch("\r") \/ lookahead = Ch(" ") THEN ADVANCE(71)
                 ELSE IF lookahead # 0 /\ lookahead # Ch("'") THEN ADVANCE(73)
                 ELSE END_STATE]
    [] state = 72 ->
       [accept |-> ACCEPT_TOKEN("aux_sym_string_token2"),
        next |-> IF lookahead = Ch("*") THEN ADVANCE(158)
                 ELSE IF lookahead = Ch("/") THEN ADVANCE(153)
                 ELSE IF lookahead # 0 /\ lookahead # Ch("'") THEN ADVANCE(73)
                 ELSE END_STATE]
    [] state = 73 ->
       [accept |-> ACCEPT_TOKEN("aux_sym_string_token2"),
        next |-> IF lookahead # 0 /\ lookahead # Ch("'") THEN ADVANCE(73)
                 ELSE END_STATE]
    [] state = 74 ->
       [accept |-> ACCEPT_TOKEN("anon_sym_DQUOTE_DQUOTE_DQUOTE"),
        next |-> END_STATE]
    [] state = 75 ->
       [accept |-> ACCEPT_TOKEN("aux_sym_string_token3"),
        next |-> END_STATE]
    [] state = 76 ->
       [accept |-> ACCEPT_TOKEN("aux_sym_string_token3"),
        next |-> IF lookahead = Ch("\"") THEN ADVANCE(5)
                 ELSE IF lookahead = Ch("#") THEN ADVANCE(141)
                 ELSE IF lookahead = Ch("/") THEN ADVANCE(77)
                 ELSE IF lookahead = Ch("\t") \/ lookahead = Ch("\n") \/ lookahead = Ch("\r") \/ lookahead = Ch(" ") THEN ADVANCE(76)
                 ELSE IF lookahead # 0 THEN ADVANCE(75)
                 ELSE END_STATE]
    [] state = 77 ->
       [accept |-> ACCEPT_TOKEN("aux_sym_string_token3"),
        next |-> IF lookahead = Ch("*") THEN ADVANCE(154)
                 ELSE IF lookahead = Ch("/") THEN ADVANCE(149)
                 ELSE END_STATE]
    [] state = 78 ->
       [accept |-> ACCEPT_TOKEN("aux_sym_string_token3"),
        next |-> IF lookahead # 0 /\ lookahead # Ch("\"") THEN ADVANCE(78)
                 ELSE END_STATE]

(* Variant of the number states: after a leading 0 a digit does not
   continue the integer. *)
ts_lex_79_82_zero_alone(state, lookahead, eof) ==
  CASE state = 79 ->
       [accept |-> ACCEPT_TOKEN("aux_sym_number_token1"),
        next |-> IF (Ch("0") <= lookahead /\ lookahead <= Ch("9")) \/ (Ch("A") <= lookahead /\ lookahead <= Ch("F")) \/ (Ch("a") <= lookahead /\ lookahead <= Ch("f")) THEN ADVANCE(79)
                 ELSE END_STATE]
    [] state = 80 ->
       [accept |-> ACCEPT_TOKEN("aux_sym_number_token2"),
        next |-> IF (Ch("0") <= lookahead /\ lookahead <= Ch("9")) THEN ADVANCE(80)
                 ELSE END_STATE]
    [] state = 81 ->
       [accept |-> ACCEPT_TOKEN("aux_sym_number_token3"),
        next |-> IF lookahead = Ch(".") THEN ADVANCE(44)
                 ELSE IF lookahead = Ch("x") THEN ADVANCE(45)
                 ELSE END_STATE]
    [] state = 82 ->
       [accept |-> ACCEPT_TOKEN("aux_sym_number_token3"),
        next |-> IF lookahead = Ch(".") THEN ADVANCE(44)
                 ELSE IF (Ch("0") <= lookahead /\ lookahead <= Ch("9")) THEN ADVANCE(82)
                 ELSE END_STATE]

ts_lex_79_82(state, lookahead, eof) ==
  CASE state = 79 ->
       [accept |-> ACCEPT_TOKEN("aux_sym_number_token1"),
        next |-> IF (Ch("0") <= lookahead /\ lookahead <= Ch("9")) \/ (Ch("A") <= lookahead /\ lookahead <= Ch("F")) \/ (Ch("a") <= lookahead /\ lookahead <= Ch("f")) THEN ADVANCE(79)
                 ELSE END_STATE]
    [] state = 80 ->
       [accept |-> ACCEPT_TOKEN("aux_sym_number_token2"),
        next |-> IF (Ch("0") <= lookahead /\ lookahead <= Ch("9")) THEN ADVANCE(80)
                 ELSE END_STATE]
    [] state = 81 ->
       [accept |-> ACCEPT_TOKEN("aux_sym_number_token3"),
        next |-> IF lookahead = Ch(".") THEN ADVANCE(44)
                 ELSE IF lookahead = Ch("x") THEN ADVANCE(45)
                 ELSE IF (Ch("0") <= lookahead /\ lookahead <= Ch("9")) THEN ADVANCE(82)
                 ELSE END_STATE]
    [] state = 82 ->
       [accept |-> ACCEPT_TOKEN("aux_sym_number_token3"),
        next |-> IF lookahead = Ch(".") THEN ADVANCE(44)
                 ELSE IF (Ch("0") <= lookahead /\ lookahead <= Ch("9")) THEN ADVANCE(82)
                 ELSE END_STATE]

(* Variant of the punctuation states: state 94 returns `/` without looking
   at the next character. *)
ts_lex_83_96_slash_alone(state, lookahead, eof) ==
  CASE state = 83 ->
       [accept |-> ACCEPT_TOKEN("anon_sym_true"),
        next |-> IF (Ch("0") <= lookahead /\ lookahead <= Ch("9")) \/ (Ch("A") <= lookahead /\ lookahead <= Ch("Z")) \/ lookahead = Ch("_") \/ (Ch("a") <= lookahead /\ lookahead <= Ch("z")) THEN ADVANCE(140)
                 ELSE END_STATE]
    [] state = 84 ->
       [accept |-> ACCEPT_TOKEN("anon_sym_false"),
        next |-> IF (Ch("0") <= lookahead /\ lookahead <= Ch("9")) \/ (Ch("A") <= lookahead /\ lookahead <= Ch("Z")) \/ lookahead = Ch("_") \/ (Ch("a") <= lookahead /\ lookahead <= Ch("z")) THEN ADVANCE(140)
                 ELSE END_STATE]
    [] state = 85 ->
       [accept |-> ACCEPT_TOKEN("sym_null"),
        next |-> IF (Ch("0") <= lookahead /\ lookahead <= Ch("9")) \/ (Ch("A") <= lookahead /\ lookahead <= Ch("Z")) \/ lookahead = Ch("_") \/ (Ch("a") <= lookahead /\ lookahead <= Ch("z")) THEN ADVANCE(140)
                 ELSE END_STATE]
    [] state = 86 ->
       [accept |-> ACCEPT_TOKEN("anon_sym_LBRACK"),
        next |-> END_STATE]
    [] state = 87 ->
       [accept |-> ACCEPT_TOKEN("anon_sym_COMMA"),
        next |-> END_STATE]
    [] state = 88 ->
       [accept |-> ACCEPT_TOKEN("anon_sym_RBRACK"),
        next |-> END_STATE]
    [] state = 89 ->
       [accept |-> ACCEPT_TOKEN("anon_sym_COLON"),
        next |-> END_STATE]
    [] state = 90 ->
       [accept |-> ACCEPT_TOKEN("anon_sym_DOT"),
        next |-> END_STATE]
    [] state = 91 ->
       [accept |-> ACCEPT_TOKEN("anon_sym_LPAREN"),
        next |-> END_STATE]
    [] state = 92 ->
       [accept |-> ACCEPT_TOKEN("anon_sym_RPAREN"),
        next |-> END_STATE]
    [] state = 93 ->
       [accept |-> ACCEPT_TOKEN("anon_sym_STAR"),
        next |-> END_STATE]
    [] state = 94 ->
       [accept |-> ACCEPT_TOKEN("anon_sym_SLASH"),
        next |-> END_STATE]
    [] state = 95 ->
       [accept |-> ACCEPT_TOKEN("anon_sym_PLUS"),
        next |-> END_STATE]
    [] state = 96 ->
       [accept |-> ACCEPT_TOKEN("anon_sym_DASH"),
        next |-> END_STATE]

ts_lex_83_96(state, lookahead, eof) ==
  CASE state = 83 ->
       [accept |-> ACCEPT_TOKEN("anon_sym_true"),
        next |-> IF (Ch("0") <= lookahead /\ lookahead <= Ch("9")) \/ (Ch("A") <= lookahead /\ lookahead <= Ch("Z")) \/ lookahead = Ch("_") \/ (Ch("a") <= lookahead /\ lookahead <= Ch("z")) THEN ADVANCE(140)
                 ELSE END_STATE]
    [] state = 84 ->
       [accept |-> ACCEPT_TOKEN("anon_sym_false"),
        next |-> IF (Ch("0") <= lookahead /\ lookahead <= Ch("9")) \/ (Ch("A") <= lookahead /\ lookahead <= Ch("Z")) \/ lookahead = Ch("_") \/ (Ch("a") <= lookahead /\ lookahead <= Ch("z")) THEN ADVANCE(140)
                 ELSE END_STATE]
    [] state = 85 ->
       [accept |-> ACCEPT_TOKEN("sym_null"),
        next |-> IF (Ch("0") <= lookahead /\ lookahead <= Ch("9")) \/ (Ch("A") <= lookahead /\ lookahead <= Ch("Z")) \/ lookahead = Ch("_") \/ (Ch("a") <= lookahead /\ lookahead <= Ch("z")) THEN ADVANCE(140)
                 ELSE END_STATE]
    [] state = 86 ->
       [accept |-> ACCEPT_TOKEN("anon_sym_LBRACK"),
        next |-> END_STATE]
    [] state = 87 ->
       [accept |-> ACCEPT_TOKEN("anon_sym_COMMA"),
        next |-> END_STATE]
    [] state = 88 ->
       [accept |-> ACCEPT_TOKEN("anon_sym_RBRACK"),
        next |-> END_STATE]
    [] state = 89 ->
       [accept |-> ACCEPT_TOKEN("anon_sym_COLON"),
        next |-> END_STATE]
    [] state = 90 ->
       [accept |-> ACCEPT_TOKEN("anon_sym_DOT"),
        next |-> END_STATE]
    [] state = 91 ->
       [accept |-> ACCEPT_TOKEN("anon_sym_LPAREN"),
        next |-> END_STATE]
    [] state = 92 ->
       [accept |-> ACCEPT_TOKEN("anon_sym_RPAREN"),
        next |-> END_STATE]
    [] state = 93 ->
       [accept |-> ACCEPT_TOKEN("anon_sym_STAR"),
        next |-> END_STATE]
    [] state = 94 ->
       [accept |-> ACCEPT_TOKEN("anon_sym_SLASH"),
        next |-> IF lookahead = Ch("*") THEN ADVANCE(154)
                 ELSE IF lookahead = Ch("/") THEN ADVANCE(149)
                 ELSE END_STATE]
    [] state = 95 ->
       [accept |-> ACCEPT_TOKEN("anon_sym_PLUS"),
        next |-> END_STATE]
    [] state = 96 ->
       [accept |-> ACCEPT_TOKEN("anon_sym_DASH"),
        next |-> END_STATE]

ts_lex_97_140(state, lookahead, eof) ==
  CASE state = 97 ->
       [accept |-> ACCEPT_TOKEN("sym_identifier"),
        next |-> IF lookahead = Ch("a") THEN ADVANCE(111)
                 ELSE IF (Ch("0") <= lookahead /\ lookahead <= Ch("9")) \/ (Ch("A") <= lookahead /\ lookahead <= Ch("Z")) \/ lookahead = Ch("_") \/ (Ch("b") <= lookahead /\ lookahead <= Ch("z")) THEN ADVANCE(140)
                 ELSE END_STATE]
    [] state = 98 ->
       [accept |-> ACCEPT_TOKEN("sym_identifier"),
        next |-> IF lookahead = Ch("a") THEN ADVANCE(100)
                 ELSE IF (Ch("0") <= lookahead /\ lookahead <= Ch("9")) \/ (Ch("A") <= lookahead /\ lookahead <= Ch("Z")) \/ lookahead = Ch("_") \/ (Ch("b") <= lookahead /\ lookahead <= Ch("z")) THEN ADVANCE(140)
                 ELSE END_STATE]
    [] state = 99 ->
       [accept |-> ACCEPT_TOKEN("sym_identifier"),
        next |-> IF lookahead = Ch("a") THEN ADVANCE(127)
                 ELSE IF (Ch("0") <= lookahead /\ lookahead <= Ch("9")) \/ (Ch("A") <= lookahead /\ lookahead <= Ch("Z")) \/ lookahead = Ch("_") \/ (Ch("b") <= lookahead /\ lookahead <= Ch("z")) THEN ADVANCE(140)
                 ELSE END_STATE]
    [] state = 100 ->
       [accept |-> ACCEPT_TOKEN("sym_identifier"),
        next |-> IF lookahead = Ch("b") THEN ADVANCE(114)
                 ELSE IF (Ch("0") <= lookahead /\ lookahead <= Ch("9")) \/ (Ch("A") <= lookahead /\ lookahead <= Ch("Z")) \/ lookahead = Ch("_") \/ (Ch("a") <= lookahead /\ lookahead <= Ch("z")) THEN ADVANCE(140)
                 ELSE END_STATE]
    [] state = 101 ->
       [accept |-> ACCEPT_TOKEN("sym_identifier"),
        next |-> IF lookahead = Ch("c") THEN ADVANCE(133)
                 ELSE IF lookahead = Ch("d") THEN ADVANCE(102)
                 ELSE IF (Ch("0") <= lookahead /\ lookahead <= Ch("9")) \/ (Ch("A") <= lookahead /\ lookahead <= Ch("Z")) \/ lookahead = Ch("_") \/ (Ch("a") <= lookahead /\ lookahead <= Ch("z")) THEN ADVANCE(140)
                 ELSE END_STATE]
    [] state = 102 ->
       [accept |-> ACCEPT_TOKEN("sym_identifier"),
        next |-> IF lookahead = Ch("d") THEN ADVANCE(119)
                 ELSE IF (Ch("0") <= lookahead /\ lookahead <= Ch("9")) \/ (Ch("A") <= lookahead /\ lookahead <= Ch("Z")) \/ lookahead = Ch("_") \/ (Ch("a") <= lookahead /\ lookahead <= Ch("z")) THEN ADVANCE(140)
                 ELSE END_STATE]
    [] state = 103 ->
       [accept |-> ACCEPT_TOKEN("sym_identifier"),
        next |-> IF lookahead = Ch("e") THEN ADVANCE(83)
                 ELSE IF (Ch("0") <= lookahead /\ lookahead <= Ch("9")) \/ (Ch("A") <= lookahead /\ lookahead <= Ch("Z")) \/ lookahead = Ch("_") \/ (Ch("a") <= lookahead /\ lookahead <= Ch("z")) THEN ADVANCE(140)
                 ELSE END_STATE]
    [] state = 104 ->
       [accept |-> ACCEPT_TOKEN("sym_identifier"),
        next |-> IF lookahead = Ch("e") THEN ADVANCE(84)
                 ELSE IF (Ch("0") <= lookahead /\ lookahead <= Ch("9")) \/ (Ch("A") <= lookahead /\ lookahead <= Ch("Z")) \/ lookahead = Ch("_") \/ (Ch("a") <= lookahead /\ lookahead <= Ch("z")) THEN ADVANCE(140)
                 ELSE END_STATE]
    [] state = 105 ->
       [accept |-> ACCEPT_TOKEN("sym_identifier"),
        next |-> IF lookahead = Ch("e") THEN ADVANCE(57)
                 ELSE IF (Ch("0") <= lookahead /\ lookahead <= Ch("9")) \/ (Ch("A") <= lookahead /\ lookahead <= Ch("Z")) \/ lookahead = Ch("_") \/ (Ch("a") <= lookahead /\ lookahead <= Ch("z")) THEN ADVANCE(140)
                 ELSE END_STATE]
    [] state = 106 ->
       [accept |-> ACCEPT_TOKEN("sym_identifier"),
        next |-> IF lookahead = Ch("e") THEN ADVANCE(125)
                 ELSE IF (Ch("0") <= lookahead /\ lookahead <= Ch("9")) \/ (Ch("A") <= lookahead /\ lookahead <= Ch("Z")) \/ lookahead = Ch("_") \/ (Ch("a") <= lookahead /\ lookahead <= Ch("z")) THEN ADVANCE(140)
                 ELSE END_STATE]
    [] state = 107 ->
       [accept |-> ACCEPT_TOKEN("sym_identifier"),
        next |-> IF lookahead = Ch("g") THEN ADVANCE(118)
                 ELSE IF (Ch("0") <= lookahead /\ lookahead <= Ch("9")) \/ (Ch("A") <= lookahead /\ lookahead <= Ch("Z")) \/ lookahead = Ch("_") \/ (Ch("a") <= lookahead /\ lookahead <= Ch("z")) THEN ADVANCE(140)
                 ELSE END_STATE]
    [] state = 108 ->
       [accept |-> ACCEPT_TOKEN("sym_identifier"),
        next |-> IF lookahead = Ch("i") THEN ADVANCE(107)
                 ELSE IF (Ch("0") <= lookahead /\ lookahead <= Ch("9")) \/ (Ch("A") <= lookahead /\ lookahead <= Ch("Z")) \/ lookahead = Ch("_") \/ (Ch("a") <= lookahead /\ lookahead <= Ch("z")) THEN ADVANCE(140)
                 ELSE END_STATE]
    [] state = 109 ->
       [accept |-> ACCEPT_TOKEN("sym_identifier"),
        next |-> IF lookahead = Ch("i") THEN ADVANCE(98)
                 ELSE IF (Ch("0") <= lookahead /\ lookahead <= Ch("9")) \/ (Ch("A") <= lookahead /\ lookahead <= Ch("Z")) \/ lookahead = Ch("_") \/ (Ch("a") <= lookahead /\ lookahead <= Ch("z")) THEN ADVANCE(140)
                 ELSE END_STATE]
    [] state = 110 ->
       [accept |-> ACCEPT_TOKEN("sym_identifier"),
        next |-> IF lookahead = Ch("i") THEN ADVANCE(121)
                 ELSE IF (Ch("0") <= lookahead /\ lookahead <= Ch("9")) \/ (Ch("A") <= lookahead /\ lookahead <= Ch("Z")) \/ lookahead = Ch("_") \/ (Ch("a") <= lookahead /\ lookahead <= Ch("z")) THEN ADVANCE(140)
                 ELSE END_STATE]
    [] state = 111 ->
       [accept |-> ACCEPT_TOKEN("sym_identifier"),
        next |-> IF lookahead = Ch("l") THEN ADVANCE(129)
                 ELSE IF (Ch("0") <= lookahead /\ lookahead <= Ch("9")) \/ (Ch("A") <= lookahead /\ lookahead <= Ch("Z")) \/ lookahead = Ch("_") \/ (Ch("a") <= lookahead /\ lookahead <= Ch("z")) THEN ADVANCE(140)
                 ELSE END_STATE]
    [] state = 112 ->
       [accept |-> ACCEPT_TOKEN("sym_identifier"),
        next |-> IF lookahead = Ch("l") THEN ADVANCE(85)
                 ELSE IF (Ch("0") <= lookahead /\ lookahead <= Ch("9")) \/ (Ch("A") <= lookahead /\ lookahead <= Ch("Z")) \/ lookahead = Ch("_") \/ (Ch("a") <= lookahead /\ lookahead <= Ch("z")) THEN ADVANCE(140)
                 ELSE END_STATE]
    [] state = 113 ->
       [accept |-> ACCEPT_TOKEN("sym_identifier"),
        next |-> IF lookahead = Ch("l") THEN ADVANCE(112)
                 ELSE IF (Ch("0") <= lookahead /\ lookahead <= Ch("9")) \/ (Ch("A") <= lookahead /\ lookahead <= Ch("Z")) \/ lookahead = Ch("_") \/ (Ch("a") <= lookahead /\ lookahead <= Ch("z")) THEN ADVANCE(140)
                 ELSE END_STATE]
    [] state = 114 ->
       [accept |-> ACCEPT_TOKEN("sym_identifier"),
        next |-> IF lookahead = Ch("l") THEN ADVANCE(105)
                 ELSE IF (Ch("0") <= lookahead /\ lookahead <= Ch("9")) \/ (Ch("A") <= lookahead /\ lookahead <= Ch("Z")) \/ lookahead = Ch("_") \/ (Ch("a") <= lookahead /\ lookahead <= Ch("z")) THEN ADVANCE(140)
                 ELSE END_STATE]
    [] state = 115 ->
       [accept |-> ACCEPT_TOKEN("sym_identifier"),
        next |-> IF lookahead = Ch("m") THEN ADVANCE(122)
                 ELSE IF lookahead = Ch("n") THEN ADVANCE(123)
                 ELSE IF (Ch("0") <= lookahead /\ lookahead <= Ch("9")) \/ (Ch("A") <= lookahead /\ lookahead <= Ch("Z")) \/ lookahead = Ch("_") \/ (Ch("a") <= lookahead /\ lookahead <= Ch("z")) THEN ADVANCE(140)
                 ELSE END_STATE]
    [] state = 116 ->
       [accept |-> ACCEPT_TOKEN("sym_identifier"),
        next |-> IF lookahead = Ch("n") THEN ADVANCE(49)
                 ELSE IF (Ch("0") <= lookahead /\ lookahead <= Ch("9")) \/ (Ch("A") <= lookahead /\ lookahead <= Ch("Z")) \/ lookahead = Ch("_") \/ (Ch("a") <= lookahead /\ lookahead <= Ch("z")) THEN ADVANCE(140)
                 ELSE END_STATE]
    [] state = 117 ->
       [accept |-> ACCEPT_TOKEN("sym_identifier"),
        next |-> IF lookahead = Ch("n") THEN ADVANCE(53)
                 ELSE IF (Ch("0") <= lookahead /\ lookahead <= Ch("9")) \/ (Ch("A") <= lookahead /\ lookahead <= Ch("Z")) \/ lookahead = Ch("_") \/ (Ch("a") <= lookahead /\ lookahead <= Ch("z")) THEN ADVANCE(140)
                 ELSE END_STATE]
    [] state = 118 ->
       [accept |-> ACCEPT_TOKEN("sym_identifier"),
        next |-> IF lookahead = Ch("n") THEN ADVANCE(106)
                 ELSE IF (Ch("0") <= lookahead /\ lookahead <= Ch("9")) \/ (Ch("A") <= lookahead /\ lookahead <= Ch("Z")) \/ lookahead = Ch("_") \/ (Ch("a") <= lookahead /\ lookahead <= Ch("z")) THEN ADVANCE(140)
                 ELSE END_STATE]
    [] state = 119 ->
       [accept |-> ACCEPT_TOKEN("sym_identifier"),
        next |-> IF lookahead = Ch("o") THEN ADVANCE(116)
                 ELSE IF (Ch("0") <= lookahead /\ lookahead <= Ch("9")) \/ (Ch("A") <= lookahead /\ lookahead <= Ch("Z")) \/ lookahead = Ch("_") \/ (Ch("a") <= lookahead /\ lookahead <= Ch("z")) THEN ADVANCE(140)
                 ELSE END_STATE]
    [] state = 120 ->
       [accept |-> ACCEPT_TOKEN("sym_identifier"),
        next |-> IF lookahead = Ch("o") THEN ADVANCE(128)
                 ELSE IF (Ch("0") <= lookahead /\ lookahead <= Ch("9")) \/ (Ch("A") <= lookahead /\ lookahead <= Ch("Z")) \/ lookahead = Ch("_") \/ (Ch("a") <= lookahead /\ lookahead <= Ch("z")) THEN ADVANCE(140)
                 ELSE END_STATE]
    [] state = 121 ->
       [accept |-> ACCEPT_TOKEN("sym_identifier"),
        next |-> IF lookahead = Ch("o") THEN ADVANCE(117)
                 ELSE IF (Ch("0") <= lookahead /\ lookahead <= Ch("9")) \/ (Ch("A") <= lookahead /\ lookahead <= Ch("Z")) \/ lookahead = Ch("_") \/ (Ch("a") <= lookahead /\ lookahead <= Ch("z")) THEN ADVANCE(140)
                 ELSE END_STATE]
    [] state = 122 ->
       [accept |-> ACCEPT_TOKEN("sym_identifier"),
        next |-> IF lookahead = Ch("p") THEN ADVANCE(120)
                 ELSE IF (Ch("0") <= lookahead /\ lookahead <= Ch("9")) \/ (Ch("A") <= lookahead /\ lookahead <= Ch("Z")) \/ lookahead = Ch("_") \/ (Ch("a") <= lookahead /\ lookahead <= Ch("z")) THEN ADVANCE(140)
                 ELSE END_STATE]
    [] state = 123 ->
       [accept |-> ACCEPT_TOKEN("sym_identifier"),
        next |-> IF lookahead = Ch("p") THEN ADVANCE(138)
                 ELSE IF (Ch("0") <= lookahead /\ lookahead <= Ch("9")) \/ (Ch("A") <= lookahead /\ lookahead <= Ch("Z")) \/ lookahead = Ch("_") \/ (Ch("a") <= lookahead /\ lookahead <= Ch("z")) THEN ADVANCE(140)
                 ELSE END_STATE]
    [] state = 124 ->
       [accept |-> ACCEPT_TOKEN("sym_identifier"),
        next |-> IF lookahead = Ch("p") THEN ADVANCE(139)
                 ELSE IF (Ch("0") <= lookahead /\ lookahead <= Ch("9")) \/ (Ch("A") <= lookahead /\ lookahead <= Ch("Z")) \/ lookahead = Ch("_") \/ (Ch("a") <= lookahead /\ lookahead <= Ch("z")) THEN ADVANCE(140)
                 ELSE END_STATE]
    [] state = 125 ->
       [accept |-> ACCEPT_TOKEN("sym_identifier"),
        next |-> IF lookahead = Ch("r") THEN ADVANCE(51)
                 ELSE IF (Ch("0") <= lookahead /\ lookahead <= Ch("9")) \/ (Ch("A") <= lookahead /\ lookahead <= Ch("Z")) \/ lookahead = Ch("_") \/ (Ch("a") <= lookahead /\ lookahead <= Ch("z")) THEN ADVANCE(140)
                 ELSE END_STATE]
    [] state = 126 ->
       [accept |-> ACCEPT_TOKEN("sym_identifier"),
        next |-> IF lookahead = Ch("r") THEN ADVANCE(135)
                 ELSE IF (Ch("0") <= lookahead /\ lookahead <= Ch("9")) \/ (Ch("A") <= lookahead /\ lookahead <= Ch("Z")) \/ lookahead = Ch("_") \/ (Ch("a") <= lookahead /\ lookahead <= Ch("z")) THEN ADVANCE(140)
                 ELSE END_STATE]
    [] state = 127 ->
       [accept |-> ACCEPT_TOKEN("sym_identifier"),
        next |-> IF lookahead = Ch("r") THEN ADVANCE(109)
                 ELSE IF (Ch("0") <= lookahead /\ lookahead <= Ch("9")) \/ (Ch("A") <= lookahead /\ lookahead <= Ch("Z")) \/ lookahead = Ch("_") \/ (Ch("a") <= lookahead /\ lookahead <= Ch("z")) THEN ADVANCE(140)
                 ELSE END_STATE]
    [] state = 128 ->
       [accept |-> ACCEPT_TOKEN("sym_identifier"),
        next |-> IF lookahead = Ch("r") THEN ADVANCE(131)
                 ELSE IF (Ch("0") <= lookahead /\ lookahead <= Ch("9")) \/ (Ch("A") <= lookahead /\ lookahead <= Ch("Z")) \/ lookahead = Ch("_") \/ (Ch("a") <= lookahead /\ lookahead <= Ch("z")) THEN ADVANCE(140)
                 ELSE END_STATE]
    [] state = 129 ->
       [accept |-> ACCEPT_TOKEN("sym_identifier"),
        next |-> IF lookahead = Ch("s") THEN ADVANCE(104)
                 ELSE IF (Ch("0") <= lookahead /\ lookahead <= Ch("9")) \/ (Ch("A") <= lookahead /\ lookahead <= Ch("Z")) \/ lookahead = Ch("_") \/ (Ch("a") <= lookahead /\ lookahead <= Ch("z")) THEN ADVANCE(140)
                 ELSE END_STATE]
    [] state = 130 ->
       [accept |-> ACCEPT_TOKEN("sym_identifier"),
        next |-> IF lookahead = Ch("t") THEN ADVANCE(59)
                 ELSE IF (Ch("0") <= lookahead /\ lookahead <= Ch("9")) \/ (Ch("A") <= lookahead /\ lookahead <= Ch("Z")) \/ lookahead = Ch("_") \/ (Ch("a") <= lookahead /\ lookahead <= Ch("z")) THEN ADVANCE(140)
                 ELSE END_STATE]
    [] state = 131 ->
       [accept |-> ACCEPT_TOKEN("sym_identifier"),
        next |-> IF lookahead = Ch("t") THEN ADVANCE(62)
                 ELSE IF (Ch("0") <= lookahead /\ lookahead <= Ch("9")) \/ (Ch("A") <= lookahead /\ lookahead <= Ch("Z")) \/ lookahead = Ch("_") \/ (Ch("a") <= lookahead /\ lookahead <= Ch("z")) THEN ADVANCE(140)
                 ELSE END_STATE]
    [] state = 132 ->
       [accept |-> ACCEPT_TOKEN("sym_identifier"),
        next |-> IF lookahead = Ch("t") THEN ADVANCE(55)
                 ELSE IF (Ch("0") <= lookahead /\ lookahead <= Ch("9")) \/ (Ch("A") <= lookahead /\ lookahead <= Ch("Z")) \/ lookahead = Ch("_") \/ (Ch("a") <= lookahead /\ lookahead <= Ch("z")) THEN ADVANCE(140)
                 ELSE END_STATE]
    [] state = 133 ->
       [accept |-> ACCEPT_TOKEN("sym_identifier"),
        next |-> IF lookahead = Ch("t") THEN ADVANCE(110)
                 ELSE IF (Ch("0") <= lookahead /\ lookahead <= Ch("9")) \/ (Ch("A") <= lookahead /\ lookahead <= Ch("Z")) \/ lookahead = Ch("_") \/ (Ch("a") <= lookahead /\ lookahead <= Ch("z")) THEN ADVANCE(140)
                 ELSE END_STATE]
    [] state = 134 ->
       [accept |-> ACCEPT_TOKEN("sym_identifier"),
        next |-> IF lookahead = Ch("t") THEN ADVANCE(124)
                 ELSE IF (Ch("0") <= lookahead /\ lookahead <= Ch("9")) \/ (Ch("A") <= lookahead /\ lookahead <= Ch("Z")) \/ lookahead = Ch("_") \/ (Ch("a") <= lookahead /\ lookahead <= Ch("z")) THEN ADVANCE(140)
                 ELSE END_STATE]
    [] state = 135 ->
       [accept |-> ACCEPT_TOKEN("sym_identifier"),
        next |-> IF lookahead = Ch("u") THEN ADVANCE(103)
                 ELSE IF (Ch("0") <= lookahead /\ lookahead <= Ch("9")) \/ (Ch("A") <= lookahead /\ lookahead <= Ch("Z")) \/ lookahead = Ch("_") \/ (Ch("a") <= lookahead /\ lookahead <= Ch("z")) THEN ADVANCE(140)
                 ELSE END_STATE]
    [] state = 136 ->
       [accept |-> ACCEPT_TOKEN("sym_identifier"),
        next |-> IF lookahead = Ch("u") THEN ADVANCE(134)
                 ELSE IF (Ch("0") <= lookahead /\ lookahead <= Ch("9")) \/ (Ch("A") <= lookahead /\ lookahead <= Ch("Z")) \/ lookahead = Ch("_") \/ (Ch("a") <= lookahead /\ lookahead <= Ch("z")) THEN ADVANCE(140)
                 ELSE END_STATE]
    [] state = 137 ->
       [accept |-> ACCEPT_TOKEN("sym_identifier"),
        next |-> IF lookahead = Ch("u") THEN ADVANCE(113)
                 ELSE IF (Ch("0") <= lookahead /\ lookahead <= Ch("9")) \/ (Ch("A") <= lookahead /\ lookahead <= Ch("Z")) \/ lookahead = Ch("_") \/ (Ch("a") <= lookahead /\ lookahead <= Ch("z")) THEN ADVANCE(140)
                 ELSE END_STATE]
    [] state = 138 ->
       [accept |-> ACCEPT_TOKEN("sym_identifier"),
        next |-> IF lookahead = Ch("u") THEN ADVANCE(130)
                 ELSE IF (Ch("0") <= lookahead /\ lookahead <= Ch("9")) \/ (Ch("A") <= lookahead /\ lookahead <= Ch("Z")) \/ lookahead = Ch("_") \/ (Ch("a") <= lookahead /\ lookahead <= Ch("z")) THEN ADVANCE(140)
                 ELSE END_STATE]
    [] state = 139 ->
       [accept |-> ACCEPT_TOKEN("sym_identifier"),
        next |-> IF lookahead = Ch("u") THEN ADVANCE(132)
                 ELSE IF (Ch("0") <= lookahead /\ lookahead <= Ch("9")) \/ (Ch("A") <= lookahead /\ lookahead <= Ch("Z")) \/ lookahead = Ch("_") \/ (Ch("a") <= lookahead /\ lookahead <= Ch("z")) THEN ADVANCE(140)
                 ELSE END_STATE]
    [] state = 140 ->
       [accept |-> ACCEPT_TOKEN("sym_identifier"),
        next |-> IF (Ch("0") <= lookahead /\ lookahead <= Ch("9")) \/ (Ch("A") <= lookahead /\ lookahead <= Ch("Z")) \/ lookahead = Ch("_") \/ (Ch("a") <= lookahead /\ lookahead <= Ch("z")) THEN ADVANCE(140)
                 ELSE END_STATE]

ts_lex_141_159(state, lookahead, eof) ==
  CASE state = 141 ->
       [accept |-> ACCEPT_TOKEN("anon_sym_POUND"),
        next |-> END_STATE]
    [] state = 142 ->
       [accept |-> ACCEPT_TOKEN("anon_sym_POUND"),
        next |-> IF lookahead = Ch("*") THEN ADVANCE(159)
                 ELSE IF lookahead # 0 THEN ADVANCE(9)
                 ELSE END_STATE]
    [] state = 143 ->
       [accept |-> ACCEPT_TOKEN("anon_sym_POUND"),
        next |-> IF lookahead # 0 /\ lookahead # Ch("\n") THEN ADVANCE(148)
                 ELSE END_STATE]
    [] state = 144 ->
       [accept |-> ACCEPT_TOKEN("anon_sym_POUND"),
        next |-> IF lookahead # 0 /\ lookahead # Ch("\"") THEN ADVANCE(69)
                 ELSE END_STATE]
    [] state = 145 ->
       [accept |-> ACCEPT_TOKEN("anon_sym_POUND"),
        next |-> IF lookahead # 0 /\ lookahead # Ch("'") THEN ADVANCE(73)
                 ELSE END_STATE]
    [] state = 146 ->
       [accept |-> ACCEPT_TOKEN("aux_sym_comment_token1"),
        next |-> IF lookahead = Ch("#") THEN ADVANCE(143)
                 ELSE IF lookahead = Ch("/") THEN ADVANCE(147)
                 ELSE IF lookahead = Ch("\t") \/ lookahead = Ch("\r") \/ lookahead = Ch(" ") THEN ADVANCE(146)
                 ELSE IF lookahead # 0 /\ lookahead # Ch("\n") THEN ADVANCE(148)
                 ELSE END_STATE]
    [] state = 147 ->
       [accept |-> ACCEPT_TOKEN("aux_sym_comment_token1"),
        next |-> IF lookahead = Ch("*") THEN ADVANCE(156)
                 ELSE IF lookahead = Ch("/") THEN ADVANCE(151)
                 ELSE IF lookahead # 0 /\ lookahead # Ch("\n") THEN ADVANCE(148)
                 ELSE END_STATE]
    [] state = 148 ->
       [accept |-> ACCEPT_TOKEN("aux_sym_comment_token1"),
        next |-> IF lookahead # 0 /\ lookahead # Ch("\n") THEN ADVANCE(148)
                 ELSE END_STATE]
    [] state = 149 ->
       [accept |-> ACCEPT_TOKEN("anon_sym_SLASH_SLASH"),
        next |-> END_STATE]
    [] state = 150 ->
       [accept |-> ACCEPT_TOKEN("anon_sym_SLASH_SLASH"),
        next |-> IF lookahead = Ch("*") THEN ADVANCE(159)
                 ELSE IF lookahead # 0 THEN ADVANCE(9)
                 ELSE END_STATE]
    [] state = 151 ->
       [accept |-> ACCEPT_TOKEN("anon_sym_SLASH_SLASH"),
        next |-> IF lookahead # 0 /\ lookahead # Ch("\n") THEN ADVANCE(148)
                 ELSE END_STATE]
    [] state = 152 ->
       [accept |-> ACCEPT_TOKEN("anon_sym_SLASH_SLASH"),
        next |-> IF lookahead # 0 /\ lookahead # Ch("\"") THEN ADVANCE(69)
                 ELSE END_STATE]
    [] state = 153 ->
       [accept |-> ACCEPT_TOKEN("anon_sym_SLASH_SLASH"),
        next |-> IF lookahead # 0 /\ lookahead # Ch("'") THEN ADVANCE(73)
                 ELSE END_STATE]
    [] state = 154 ->
       [accept |-> ACCEPT_TOKEN("anon_sym_SLASH_STAR"),
        next |-> END_STATE]
    [] state = 155 ->
       [accept |-> ACCEPT_TOKEN("anon_sym_SLASH_STAR"),
        next |-> IF lookahead = Ch("*") THEN ADVANCE(159)
                 ELSE IF lookahead # 0 /\ lookahead # Ch("/") THEN ADVANCE(9)
                 ELSE END_STATE]
    [] state = 156 ->
       [accept |-> ACCEPT_TOKEN("anon_sym_SLASH_STAR"),
        next |-> IF lookahead # 0 /\ lookahead # Ch("\n") THEN ADVANCE(148)
                 ELSE END_STATE]
    [] state = 157 ->
       [accept |-> ACCEPT_TOKEN("anon_sym_SLASH_STAR"),
        next |-> IF lookahead # 0 /\ lookahead # Ch("\"") THEN ADVANCE(69)
                 ELSE END_STATE]
    [] state = 158 ->
       [accept |-> ACCEPT_TOKEN("anon_sym_SLASH_STAR"),
        next |-> IF lookahead # 0 /\ lookahead # Ch("'") THEN ADVANCE(73)
                 ELSE END_STATE]
    [] state = 159 ->
       [accept |-> ACCEPT_TOKEN("aux_sym_comment_token2"),
        next |-> IF lookahead = Ch("*") THEN ADVANCE(159)
                 ELSE IF lookahead # 0 /\ lookahead # Ch("/") THEN ADVANCE(9)
                 ELSE END_STATE]

(* Variant of ts_lex: the state after `0x` accepts the hex token. *)
ts_lex_empty_hex(state, lookahead_char, eof) ==
  CASE state \in 0..10 -> ts_lex_0_10(state, lookahead_char, eof)
    [] state = 45 ->
       [ts_lex_11_62(state, lookahead_char, eof)
          EXCEPT !.accept = ACCEPT_TOKEN("aux_sym_number_token1")]
    [] state \in 11..62 \ {45} -> ts_lex_11_62(state, lookahead_char, eof)
    [] state \in 63..78 -> ts_lex_63_78(state, lookahead_char, eof)
    [] state \in 79..82 -> ts_lex_79_82(state, lookahead_char, eof)
    [] state \in 83..96 -> ts_lex_83_96(state, lookahead_char, eof)
    [] state \in 97..140 -> ts_lex_97_140(state, lookahead_char, eof)
    [] state \in 141..159 -> ts_lex_141_159(state, lookahead_char, eof)
    [] OTHER -> [accept |-> NO_ACCEPT, next |-> END_STATE]

ts_lex(state, lookahead_char, eof) ==
  CASE state \in 0..10 -> ts_lex_0_10(state, lookahead_char, eof)
    [] state \in 11..62 -> ts_lex_11_62(state, lookahead_char, eof)
    [] state \in 63..78 -> ts_lex_63_78(state, lookahead_char, eof)
    [] state \in 79..82 -> ts_lex_79_82(state, lookahead_char, eof)
    [] state \in 83..96 -> ts_lex_83_96(state, lookahead_char, eof)
    [] state \in 97..140 -> ts_lex_97_140(state, lookahead_char, eof)
    [] state \in 141..159 -> ts_lex_141_159(state, lookahead_char, eof)
    [] OTHER -> [accept |-> NO_ACCEPT, next |-> END_STATE]

(***************************************************************************)
(* One call of ts_lex on `text` from byte offset `pos`: the loop of        *)
(* START_LEXER / ADVANCE / SKIP.  ACCEPT_TOKEN records the symbol and      *)
(* marks the token's end at the current offset; SKIP moves the token's     *)
(* start past the skipped character; END_STATE returns the last accepted   *)
(* token, if any.  Offsets count bytes from 0; a token covers [start, end).*)
(***************************************************************************)
RECURSIVE ts_lex_run(_, _, _, _, _, _)
Lookahead(text, pos) ==
  IF pos >= Len(text) THEN 0 ELSE Ch(SubSeq(text, pos + 1, pos + 1))

NextPos(text, pos) == IF pos >= Len(text) THEN pos ELSE pos + 1

LexerResult(symbol, start, end) ==
  [found |-> symbol # NO_ACCEPT, symbol |-> symbol, start |-> start, end |-> end]

(* After ACCEPT_TOKEN: END_STATE returns, ADVANCE and SKIP go round again. *)
ts_lex_next(text, pos, start, result_symbol, end, next) ==
  IF next.op = "END_STATE" THEN LexerResult(result_symbol, start, end)
  ELSE ts_lex_run(text, next.state, NextPos(text, pos),
                  IF next.op = "SKIP" THEN NextPos(text, pos) ELSE start,
                  result_symbol, end)

(* One round in the lexer state whose `case` is s. *)
ts_lex_case(text, pos, start, result_symbol, end, s) ==
  ts_lex_next(text, pos, start,
              IF s.accept # NO_ACCEPT THEN s.accept ELSE result_symbol,
              IF s.accept # NO_ACCEPT THEN pos ELSE end,
              s.next)

ts_lex_run(text, state, pos, start, result_symbol, end) ==
  ts_lex_case(text, pos, start, result_symbol, end,
              ts_lex(state, Lookahead(text, pos), pos >= Len(text)))

Lex(text, lex_state, pos) == ts_lex_run(text, lex_state, pos, pos, NO_ACCEPT, pos)

(***************************************************************************)
(* The lex state of every parse state; -1 marks the two states that end a  *)
(* comment, where no lookahead is read.                                    *)
(***************************************************************************)
ts_lex_modes ==
     0 :> 0 @@ 1 :> 46 @@ 2 :> 2 @@ 3 :> 2 @@ 4 :> 2 @@ 5 :> 2 @@ 6 :> 2 @@ 7 :> 2
  @@ 8 :> 2 @@ 9 :> 2 @@ 10 :> 2 @@ 11 :> 2 @@ 12 :> 2 @@ 13 :> 2 @@ 14 :> 2 @@ 15 :> 2
  @@ 16 :> 2 @@ 17 :> 46 @@ 18 :> 2 @@ 19 :> 2 @@ 20 :> 2 @@ 21 :> 46 @@ 22 :> 46 @@ 23 :> 46
  @@ 24 :> 46 @@ 25 :> 46 @@ 26 :> 46 @@ 27 :> 46 @@ 28 :> 46 @@ 29 :> 46 @@ 30 :> 46 @@ 31 :> 46
  @@ 32 :> 46 @@ 33 :> 46 @@ 34 :> 46 @@ 35 :> 46 @@ 36 :> 46 @@ 37 :> 46 @@ 38 :> 46 @@ 39 :> 46
  @@ 40 :> 46 @@ 41 :> 46 @@ 42 :> 46 @@ 43 :> 46 @@ 44 :> 46 @@ 45 :> 46 @@ 46 :> 46 @@ 47 :> 1
  @@ 48 :> 46 @@ 49 :> 46 @@ 50 :> 46 @@ 51 :> 46 @@ 52 :> 46 @@ 53 :> 46 @@ 54 :> 46 @@ 55 :> 1
  @@ 56 :> 1 @@ 57 :> 46 @@ 58 :> 46 @@ 59 :> 1 @@ 60 :> 1 @@ 61 :> 1 @@ 62 :> 1 @@ 63 :> 46
  @@ 64 :> 0 @@ 65 :> 1 @@ 66 :> 1 @@ 67 :> 0 @@ 68 :> 1 @@ 69 :> 1 @@ 70 :> 0 @@ 71 :> 0
  @@ 72 :> 1 @@ 73 :> 0 @@ 74 :> 1 @@ 75 :> 1 @@ 76 :> 1 @@ 77 :> 1 @@ 78 :> 1 @@ 79 :> 1
  @@ 80 :> 0 @@ 81 :> 1 @@ 82 :> 1 @@ 83 :> 1 @@ 84 :> 1 @@ 85 :> 1 @@ 86 :> 1 @@ 87 :> 1
  @@ 88 :> 1 @@ 89 :> 1 @@ 90 :> 1 @@ 91 :> 1 @@ 92 :> 1 @@ 93 :> 1 @@ 94 :> 1 @@ 95 :> 0
  @@ 96 :> 0 @@ 97 :> 1 @@ 98 :> 0 @@ 99 :> 0 @@ 100 :> 0 @@ 101 :> 0 @@ 102 :> 0 @@ 103 :> 1
  @@ 104 :> 1 @@ 105 :> 0 @@ 106 :> 0 @@ 107 :> 0 @@ 108 :> 0 @@ 109 :> 0 @@ 110 :> 0 @@ 111 :> 0
  @@ 112 :> 0 @@ 113 :> 0 @@ 114 :> 0 @@ 115 :> 0 @@ 116 :> 0 @@ 117 :> 0 @@ 118 :> 0 @@ 119 :> 1
  @@ 120 :> 0 @@ 121 :> 0 @@ 122 :> 0 @@ 123 :> 1 @@ 124 :> 0 @@ 125 :> 0 @@ 126 :> 0 @@ 127 :> 1
  @@ 128 :> 0 @@ 129 :> 0 @@ 130 :> 0 @@ 131 :> 0 @@ 132 :> 71 @@ 133 :> 0 @@ 134 :> 0 @@ 135 :> 67
  @@ 136 :> 0 @@ 137 :> 4 @@ 138 :> 0 @@ 139 :> 0 @@ 140 :> 0 @@ 141 :> 6 @@ 142 :> 0 @@ 143 :> 146
  @@ 144 :> 0 @@ 145 :> 7 @@ 146 :> 0 @@ 147 :> 4 @@ 148 :> 6 @@ 149 :> 67 @@ 150 :> 71 @@ 151 :> -1
  @@ 152 :> -1

(***************************************************************************)
(* The parse tables, written with the macros of the source: STATE(id) is   *)
(* GOTO_STATE(id) and ACTIONS(id) is ACTION_INDEX(id) here, both words     *)
(* being reserved.                                                         *)
(***************************************************************************)
LARGE_STATE_COUNT == 2

GOTO_STATE(id) == id

ACTION_INDEX(id) == id

SMALL_STATE(id) == id - LARGE_STATE_COUNT

SHIFT(state_value) ==
  [type |-> "SHIFT", state |-> state_value, repetition |-> FALSE,
   symbol |-> NO_ACCEPT, child_count |-> 0, production_id |-> 0]

SHIFT_REPEAT(state_value) ==
  [type |-> "SHIFT", state |-> state_value, repetition |-> TRUE,
   symbol |-> NO_ACCEPT, child_count |-> 0, production_id |-> 0]

REDUCE(symbol_val, child_count_val, production_id_val) ==
  [type |-> "REDUCE", state |-> 0, repetition |-> FALSE,
   symbol |-> symbol_val, child_count |-> child_count_val,
   production_id |-> production_id_val]

RECOVER ==
  [type |-> "RECOVER", state |-> 0, repetition |-> FALSE,
   symbol |-> NO_ACCEPT, child_count |-> 0, production_id |-> 0]

ACCEPT_INPUT ==
  [type |-> "ACCEPT", state |-> 0, repetition |-> FALSE,
   symbol |-> NO_ACCEPT, child_count |-> 0, production_id |-> 0]

ts_parse_actions ==
     0 :> <<>>
  @@ 1 :> <<RECOVER>>
  @@ 3 :> <<SHIFT(143)>>
  @@ 5 :> <<SHIFT(145)>>
  @@ 7 :> <<REDUCE("sym_runbook", 0, 0)>>
  @@ 9 :> <<SHIFT(101)>>
  @@ 11 :> <<SHIFT(106)>>
  @@ 13 :> <<SHIFT(109)>>
  @@ 15 :> <<SHIFT(99)>>
  @@ 17 :> <<SHIFT(102)>>
  @@ 19 :> <<SHIFT(105)>>
  @@ 21 :> <<SHIFT(100)>>
  @@ 23 :> <<SHIFT(59)>>
  @@ 25 :> <<SHIFT(135)>>
  @@ 27 :> <<SHIFT(132)>>
  @@ 29 :> <<SHIFT(137)>>
  @@ 31 :> <<SHIFT(34)>>
  @@ 33 :> <<SHIFT(34)>>
  @@ 35 :> <<SHIFT(33)>>
  @@ 37 :> <<SHIFT(32)>>
  @@ 39 :> <<SHIFT(3)>>
  @@ 41 :> <<SHIFT(128)>>
  @@ 43 :> <<SHIFT(91)>>
  @@ 45 :> <<SHIFT(21)>>
  @@ 47 :> <<SHIFT(136)>>
  @@ 49 :> <<SHIFT(31)>>
  @@ 51 :> <<SHIFT(39)>>
  @@ 53 :> <<SHIFT(44)>>
  @@ 55 :> <<SHIFT(78)>>
  @@ 57 :> <<SHIFT(76)>>
  @@ 59 :> <<SHIFT(75)>>
  @@ 61 :> <<SHIFT(35)>>
  @@ 63 :> <<SHIFT(62)>>
  @@ 65 :> <<SHIFT(149)>>
  @@ 67 :> <<SHIFT(150)>>
  @@ 69 :> <<SHIFT(147)>>
  @@ 71 :> <<SHIFT(89)>>
  @@ 73 :> <<SHIFT(89)>>
  @@ 75 :> <<SHIFT(94)>>
  @@ 77 :> <<SHIFT(93)>>
  @@ 79 :> <<SHIFT(2)>>
  @@ 81 :> <<SHIFT(47)>>
  @@ 83 :> <<REDUCE("sym_string", 3, 0)>>
  @@ 85 :> <<REDUCE("sym_string", 3, 0)>>
  @@ 87 :> <<REDUCE("sym_reference", 1, 0)>>
  @@ 89 :> <<SHIFT(20)>>
  @@ 91 :> <<SHIFT(127)>>
  @@ 93 :> <<SHIFT(9)>>
  @@ 95 :> <<REDUCE("sym_reference", 1, 0)>>
  @@ 97 :> <<REDUCE("aux_sym_reference_repeat1", 2, 0)>>
  @@ 99 :> <<REDUCE("aux_sym_reference_repeat1", 2, 0), SHIFT_REPEAT(127)>>
  @@ 102 :> <<REDUCE("aux_sym_reference_repeat1", 2, 0)>>
  @@ 104 :> <<REDUCE("sym_reference", 2, 0)>>
  @@ 106 :> <<REDUCE("sym_reference", 2, 0)>>
  @@ 108 :> <<REDUCE("sym_index_access", 4, 0)>>
  @@ 110 :> <<REDUCE("sym_index_access", 4, 0)>>
  @@ 112 :> <<REDUCE("sym_runbook", 1, 0)>>
  @@ 114 :> <<REDUCE("aux_sym_runbook_repeat1", 2, 0)>>
  @@ 116 :> <<REDUCE("aux_sym_runbook_repeat1", 2, 0), SHIFT_REPEAT(101)>>
  @@ 119 :> <<REDUCE("aux_sym_runbook_repeat1", 2, 0), SHIFT_REPEAT(106)>>
  @@ 122 :> <<REDUCE("aux_sym_runbook_repeat1", 2, 0), SHIFT_REPEAT(109)>>
  @@ 125 :> <<REDUCE("aux_sym_runbook_repeat1", 2, 0), SHIFT_REPEAT(99)>>
  @@ 128 :> <<REDUCE("aux_sym_runbook_repeat1", 2, 0), SHIFT_REPEAT(102)>>
  @@ 131 :> <<REDUCE("aux_sym_runbook_repeat1", 2, 0), SHIFT_REPEAT(105)>>
  @@ 134 :> <<REDUCE("aux_sym_runbook_repeat1", 2, 0), SHIFT_REPEAT(100)>>
  @@ 137 :> <<REDUCE("sym_array", 3, 0)>>
  @@ 139 :> <<REDUCE("sym_array", 3, 0)>>
  @@ 141 :> <<REDUCE("sym_array", 2, 0)>>
  @@ 143 :> <<REDUCE("sym_array", 2, 0)>>
  @@ 145 :> <<REDUCE("sym__expression", 1, 0)>>
  @@ 147 :> <<REDUCE("sym__expression", 1, 0)>>
  @@ 149 :> <<REDUCE("sym_boolean", 1, 0)>>
  @@ 151 :> <<REDUCE("sym_boolean", 1, 0)>>
  @@ 153 :> <<REDUCE("sym_number", 1, 0)>>
  @@ 155 :> <<REDUCE("sym_number", 1, 0)>>
  @@ 157 :> <<REDUCE("sym_function_call", 3, 7)>>
  @@ 159 :> <<REDUCE("sym_function_call", 3, 7)>>
  @@ 161 :> <<REDUCE("sym_object", 3, 0)>>
  @@ 163 :> <<REDUCE("sym_object", 3, 0)>>
  @@ 165 :> <<REDUCE("sym_object", 2, 0)>>
  @@ 167 :> <<REDUCE("sym_object", 2, 0)>>
  @@ 169 :> <<REDUCE("sym_function_call", 5, 9)>>
  @@ 171 :> <<REDUCE("sym_function_call", 5, 9)>>
  @@ 173 :> <<REDUCE("sym_array", 5, 0)>>
  @@ 175 :> <<REDUCE("sym_array", 5, 0)>>
  @@ 177 :> <<REDUCE("sym_object", 5, 0)>>
  @@ 179 :> <<REDUCE("sym_object", 5, 0)>>
  @@ 181 :> <<REDUCE("sym_binary_expression", 3, 0)>>
  @@ 183 :> <<REDUCE("sym_binary_expression", 3, 0)>>
  @@ 185 :> <<REDUCE("sym_function_call", 4, 8)>>
  @@ 187 :> <<REDUCE("sym_function_call", 4, 8)>>
  @@ 189 :> <<SHIFT(13)>>
  @@ 191 :> <<SHIFT(13)>>
  @@ 193 :> <<REDUCE("sym_array", 4, 0)>>
  @@ 195 :> <<REDUCE("sym_array", 4, 0)>>
  @@ 197 :> <<REDUCE("sym_object", 4, 0)>>
  @@ 199 :> <<REDUCE("sym_object", 4, 0)>>
  @@ 201 :> <<REDUCE("sym_input_declaration", 4, 5)>>
  @@ 203 :> <<SHIFT(14)>>
  @@ 205 :> <<SHIFT(12)>>
  @@ 207 :> <<SHIFT(119)>>
  @@ 209 :> <<SHIFT(8)>>
  @@ 211 :> <<REDUCE("aux_sym_runbook_repeat1", 1, 0)>>
  @@ 213 :> <<REDUCE("sym_addon_block", 3, 2)>>
  @@ 215 :> <<REDUCE("sym_import_statement", 2, 1)>>
  @@ 217 :> <<REDUCE("sym__statement", 1, 0)>>
  @@ 219 :> <<REDUCE("sym_output_block", 3, 3)>>
  @@ 221 :> <<REDUCE("sym_variable_declaration", 3, 3)>>
  @@ 223 :> <<REDUCE("sym_block", 2, 0)>>
  @@ 225 :> <<REDUCE("sym_signer_block", 4, 4)>>
  @@ 227 :> <<REDUCE("sym_action_block", 4, 4)>>
  @@ 229 :> <<SHIFT(37)>>
  @@ 231 :> <<SHIFT(144)>>
  @@ 233 :> <<SHIFT(140)>>
  @@ 235 :> <<REDUCE("aux_sym_reference_repeat1", 2, 0), SHIFT_REPEAT(119)>>
  @@ 238 :> <<SHIFT(92)>>
  @@ 240 :> <<SHIFT(134)>>
  @@ 242 :> <<REDUCE("sym_block", 3, 0)>>
  @@ 244 :> <<REDUCE("aux_sym_array_repeat1", 2, 0)>>
  @@ 246 :> <<SHIFT(40)>>
  @@ 248 :> <<SHIFT(86)>>
  @@ 250 :> <<SHIFT(15)>>
  @@ 252 :> <<SHIFT(85)>>
  @@ 254 :> <<SHIFT(81)>>
  @@ 256 :> <<SHIFT(7)>>
  @@ 258 :> <<SHIFT(88)>>
  @@ 260 :> <<SHIFT(42)>>
  @@ 262 :> <<SHIFT(5)>>
  @@ 264 :> <<SHIFT(30)>>
  @@ 266 :> <<SHIFT(45)>>
  @@ 268 :> <<REDUCE("sym_attribute", 3, 6)>>
  @@ 270 :> <<SHIFT(18)>>
  @@ 272 :> <<SHIFT(18)>>
  @@ 274 :> <<SHIFT(10)>>
  @@ 276 :> <<REDUCE("sym_object_field", 3, 6)>>
  @@ 278 :> <<SHIFT(72)>>
  @@ 280 :> <<SHIFT(26)>>
  @@ 282 :> <<SHIFT(54)>>
  @@ 284 :> <<SHIFT(133)>>
  @@ 286 :> <<SHIFT(63)>>
  @@ 288 :> <<REDUCE("aux_sym_block_repeat1", 2, 0)>>
  @@ 290 :> <<REDUCE("aux_sym_block_repeat1", 2, 0), SHIFT_REPEAT(133)>>
  @@ 293 :> <<REDUCE("aux_sym_array_repeat1", 2, 0), SHIFT_REPEAT(15)>>
  @@ 296 :> <<SHIFT(4)>>
  @@ 298 :> <<SHIFT(66)>>
  @@ 300 :> <<SHIFT(6)>>
  @@ 302 :> <<SHIFT(38)>>
  @@ 304 :> <<SHIFT(36)>>
  @@ 306 :> <<SHIFT(74)>>
  @@ 308 :> <<REDUCE("aux_sym_object_repeat1", 2, 0)>>
  @@ 310 :> <<REDUCE("aux_sym_object_repeat1", 2, 0), SHIFT_REPEAT(79)>>
  @@ 313 :> <<SHIFT(90)>>
  @@ 315 :> <<SHIFT(69)>>
  @@ 317 :> <<SHIFT(82)>>
  @@ 319 :> <<SHIFT(65)>>
  @@ 321 :> <<SHIFT(60)>>
  @@ 323 :> <<SHIFT(97)>>
  @@ 325 :> <<REDUCE("aux_sym_block_repeat1", 1, 0)>>
  @@ 327 :> <<SHIFT(23)>>
  @@ 329 :> <<SHIFT(17)>>
  @@ 331 :> <<SHIFT(87)>>
  @@ 333 :> <<SHIFT(129)>>
  @@ 335 :> <<SHIFT(143)>>
  @@ 337 :> <<SHIFT(145)>>
  @@ 339 :> <<SHIFT(19)>>
  @@ 341 :> <<SHIFT(148)>>
  @@ 343 :> <<SHIFT(138)>>
  @@ 345 :> <<SHIFT(151)>>
  @@ 347 :> <<SHIFT(11)>>
  @@ 349 :> <<ACCEPT_INPUT>>
  @@ 351 :> <<SHIFT(152)>>
  @@ 353 :> <<SHIFT(139)>>
  @@ 355 :> <<SHIFT(16)>>
  @@ 357 :> <<SHIFT(131)>>
  @@ 359 :> <<SHIFT(141)>>
  @@ 361 :> <<SHIFT(130)>>
  @@ 363 :> <<REDUCE("sym_comment", 3, 0)>>
  @@ 365 :> <<REDUCE("sym_comment", 2, 0)>>

ts_parse_table ==
     0 :> [
          sym_comment |-> GOTO_STATE(0),
          ts_builtin_sym_end |-> ACTION_INDEX(1),
          anon_sym_addon |-> ACTION_INDEX(1),
          anon_sym_signer |-> ACTION_INDEX(1),
          anon_sym_action |-> ACTION_INDEX(1),
          anon_sym_output |-> ACTION_INDEX(1),
          anon_sym_variable |-> ACTION_INDEX(1),
          anon_sym_input |-> ACTION_INDEX(1),
          anon_sym_EQ |-> ACTION_INDEX(1),
          anon_sym_import |-> ACTION_INDEX(1),
          anon_sym_LBRACE |-> ACTION_INDEX(1),
          anon_sym_RBRACE |-> ACTION_INDEX(1),
          anon_sym_DQUOTE |-> ACTION_INDEX(1),
          anon_sym_SQUOTE |-> ACTION_INDEX(1),
          anon_sym_DQUOTE_DQUOTE_DQUOTE |-> ACTION_INDEX(1),
          aux_sym_number_token1 |-> ACTION_INDEX(1),
          aux_sym_number_token2 |-> ACTION_INDEX(1),
          aux_sym_number_token3 |-> ACTION_INDEX(1),
          anon_sym_true |-> ACTION_INDEX(1),
          anon_sym_false |-> ACTION_INDEX(1),
          sym_null |-> ACTION_INDEX(1),
          anon_sym_LBRACK |-> ACTION_INDEX(1),
          anon_sym_COMMA |-> ACTION_INDEX(1),
          anon_sym_RBRACK |-> ACTION_INDEX(1),
          anon_sym_COLON |-> ACTION_INDEX(1),
          anon_sym_DOT |-> ACTION_INDEX(1),
          anon_sym_LPAREN |-> ACTION_INDEX(1),
          anon_sym_RPAREN |-> ACTION_INDEX(1),
          anon_sym_STAR |-> ACTION_INDEX(1),
          anon_sym_SLASH |-> ACTION_INDEX(1),
          anon_sym_PLUS |-> ACTION_INDEX(1),
          anon_sym_DASH |-> ACTION_INDEX(1),
          sym_identifier |-> ACTION_INDEX(1),
          anon_sym_POUND |-> ACTION_INDEX(3),
          anon_sym_SLASH_SLASH |-> ACTION_INDEX(5),
          anon_sym_SLASH_STAR |-> ACTION_INDEX(5)]
  @@ 1 :> [
          sym_runbook |-> GOTO_STATE(142),
          sym__statement |-> GOTO_STATE(48),
          sym_addon_block |-> GOTO_STATE(51),
          sym_signer_block |-> GOTO_STATE(51),
          sym_action_block |-> GOTO_STATE(51),
          sym_output_block |-> GOTO_STATE(51),
          sym_variable_declaration |-> GOTO_STATE(51),
          sym_input_declaration |-> GOTO_STATE(51),
          sym_import_statement |-> GOTO_STATE(51),
          sym_comment |-> GOTO_STATE(1),
          aux_sym_runbook_repeat1 |-> GOTO_STATE(28),
          ts_builtin_sym_end |-> ACTION_INDEX(7),
          anon_sym_addon |-> ACTION_INDEX(9),
          anon_sym_signer |-> ACTION_INDEX(11),
          anon_sym_action |-> ACTION_INDEX(13),
          anon_sym_output |-> ACTION_INDEX(15),
          anon_sym_variable |-> ACTION_INDEX(17),
          anon_sym_input |-> ACTION_INDEX(19),
          anon_sym_import |-> ACTION_INDEX(21),
          anon_sym_POUND |-> ACTION_INDEX(3),
          anon_sym_SLASH_SLASH |-> ACTION_INDEX(5),
          anon_sym_SLASH_STAR |-> ACTION_INDEX(5)]

ts_small_parse_table ==
     0 :> <<
          <<ACTION_INDEX(3), {"anon_sym_POUND"}>>,
          <<ACTION_INDEX(23), {"anon_sym_LBRACE"}>>,
          <<ACTION_INDEX(25), {"anon_sym_DQUOTE"}>>,
          <<ACTION_INDEX(27), {"anon_sym_SQUOTE"}>>,
          <<ACTION_INDEX(29), {"anon_sym_DQUOTE_DQUOTE_DQUOTE"}>>,
          <<ACTION_INDEX(33), {"aux_sym_number_token3"}>>,
          <<ACTION_INDEX(37), {"sym_null"}>>,
          <<ACTION_INDEX(39), {"anon_sym_LBRACK"}>>,
          <<ACTION_INDEX(41), {"anon_sym_COMMA"}>>,
          <<ACTION_INDEX(43), {"anon_sym_RBRACK"}>>,
          <<ACTION_INDEX(45), {"sym_identifier"}>>,
          <<GOTO_STATE(2), {"sym_comment"}>>,
          <<GOTO_STATE(25), {"sym_index_access"}>>,
          <<GOTO_STATE(70), {"sym__expression"}>>,
          <<ACTION_INDEX(5), {"anon_sym_SLASH_SLASH", "anon_sym_SLASH_STAR"}>>,
          <<ACTION_INDEX(31), {"aux_sym_number_token1", "aux_sym_number_token2"}>>,
          <<ACTION_INDEX(35), {"anon_sym_true", "anon_sym_false"}>>,
          <<GOTO_STATE(32), {"sym_string", "sym_number", "sym_boolean", "sym_array", "sym_object", "sym_reference", "sym_function_call", "sym_binary_expression"}>>>>
  @@ 65 :> <<
          <<ACTION_INDEX(3), {"anon_sym_POUND"}>>,
          <<ACTION_INDEX(23), {"anon_sym_LBRACE"}>>,
          <<ACTION_INDEX(25), {"anon_sym_DQUOTE"}>>,
          <<ACTION_INDEX(27), {"anon_sym_SQUOTE"}>>,
          <<ACTION_INDEX(29), {"anon_sym_DQUOTE_DQUOTE_DQUOTE"}>>,
          <<ACTION_INDEX(33), {"aux_sym_number_token3"}>>,
          <<ACTION_INDEX(37), {"sym_null"}>>,
          <<ACTION_INDEX(39), {"anon_sym_LBRACK"}>>,
          <<ACTION_INDEX(45), {"sym_identifier"}>>,
          <<ACTION_INDEX(47), {"anon_sym_COMMA"}>>,
          <<ACTION_INDEX(49), {"anon_sym_RBRACK"}>>,
          <<GOTO_STATE(3), {"sym_comment"}>>,
          <<GOTO_STATE(25), {"sym_index_access"}>>,
          <<GOTO_STATE(73), {"sym__expression"}>>,
          <<ACTION_INDEX(5), {"anon_sym_SLASH_SLASH", "anon_sym_SLASH_STAR"}>>,
          <<ACTION_INDEX(31), {"aux_sym_number_token1", "aux_sym_number_token2"}>>,
          <<ACTION_INDEX(35), {"anon_sym_true", "anon_sym_false"}>>,
          <<GOTO_STATE(32), {"sym_string", "sym_number", "sym_boolean", "sym_array", "sym_object", "sym_reference", "sym_function_call", "sym_binary_expression"}>>>>
  @@ 130 :> <<
          <<ACTION_INDEX(3), {"anon_sym_POUND"}>>,
          <<ACTION_INDEX(23), {"anon_sym_LBRACE"}>>,
          <<ACTION_INDEX(25), {"anon_sym_DQUOTE"}>>,
          <<ACTION_INDEX(27), {"anon_sym_SQUOTE"}>>,
          <<ACTION_INDEX(29), {"anon_sym_DQUOTE_DQUOTE_DQUOTE"}>>,
          <<ACTION_INDEX(33), {"aux_sym_number_token3"}>>,
          <<ACTION_INDEX(37), {"sym_null"}>>,
          <<ACTION_INDEX(39), {"anon_sym_LBRACK"}>>,
          <<ACTION_INDEX(45), {"sym_identifier"}>>,
          <<ACTION_INDEX(51), {"anon_sym_RBRACK"}>>,
          <<GOTO_STATE(4), {"sym_comment"}>>,
          <<GOTO_STATE(25), {"sym_index_access"}>>,
          <<GOTO_STATE(64), {"sym__expression"}>>,
          <<ACTION_INDEX(5), {"anon_sym_SLASH_SLASH", "anon_sym_SLASH_STAR"}>>,
          <<ACTION_INDEX(31), {"aux_sym_number_token1", "aux_sym_number_token2"}>>,
          <<ACTION_INDEX(35), {"anon_sym_true", "anon_sym_false"}>>,
          <<GOTO_STATE(32), {"sym_string", "sym_number", "sym_boolean", "sym_array", "sym_object", "sym_reference", "sym_function_call", "sym_binary_expression"}>>>>
  @@ 192 :> <<
          <<ACTION_INDEX(3), {"anon_sym_POUND"}>>,
          <<ACTION_INDEX(23), {"anon_sym_LBRACE"}>>,
          <<ACTION_INDEX(25), {"anon_sym_DQUOTE"}>>,
          <<ACTION_INDEX(27), {"anon_sym_SQUOTE"}>>,
          <<ACTION_INDEX(29), {"anon_sym_DQUOTE_DQUOTE_DQUOTE"}>>,
          <<ACTION_INDEX(33), {"aux_sym_number_token3"}>>,
          <<ACTION_INDEX(37), {"sym_null"}>>,
          <<ACTION_INDEX(39), {"anon_sym_LBRACK"}>>,
          <<ACTION_INDEX(45), {"sym_identifier"}>>,
          <<ACTION_INDEX(53), {"anon_sym_RBRACK"}>>,
          <<GOTO_STATE(5), {"sym_comment"}>>,
          <<GOTO_STATE(25), {"sym_index_access"}>>,
          <<GOTO_STATE(64), {"sym__expression"}>>,
          <<ACTION_INDEX(5), {"anon_sym_SLASH_SLASH", "anon_sym_SLASH_STAR"}>>,
          <<ACTION_INDEX(31), {"aux_sym_number_token1", "aux_sym_number_token2"}>>,
          <<ACTION_INDEX(35), {"anon_sym_true", "anon_sym_false"}>>,
          <<GOTO_STATE(32), {"sym_string", "sym_number", "sym_boolean", "sym_array", "sym_object", "sym_reference", "sym_function_call", "sym_binary_expression"}>>>>
  @@ 254 :> <<
          <<ACTION_INDEX(3), {"anon_sym_POUND"}>>,
          <<ACTION_INDEX(23), {"anon_sym_LBRACE"}>>,
          <<ACTION_INDEX(25), {"anon_sym_DQUOTE"}>>,
          <<ACTION_INDEX(27), {"anon_sym_SQUOTE"}>>,
          <<ACTION_INDEX(29), {"anon_sym_DQUOTE_DQUOTE_DQUOTE"}>>,
          <<ACTION_INDEX(33), {"aux_sym_number_token3"}>>,
          <<ACTION_INDEX(37), {"sym_null"}>>,
          <<ACTION_INDEX(39), {"anon_sym_LBRACK"}>>,
          <<ACTION_INDEX(45), {"sym_identifier"}>>,
          <<ACTION_INDEX(55), {"anon_sym_RBRACK"}>>,
          <<GOTO_STATE(6), {"sym_comment"}>>,
          <<GOTO_STATE(25), {"sym_index_access"}>>,
          <<GOTO_STATE(64), {"sym__expression"}>>,
          <<ACTION_INDEX(5), {"anon_sym_SLASH_SLASH", "anon_sym_SLASH_STAR"}>>,
          <<ACTION_INDEX(31), {"aux_sym_number_token1", "aux_sym_number_token2"}>>,
          <<ACTION_INDEX(35), {"anon_sym_true", "anon_sym_false"}>>,
          <<GOTO_STATE(32), {"sym_string", "sym_number", "sym_boolean", "sym_array", "sym_object", "sym_reference", "sym_function_call", "sym_binary_expression"}>>>>
  @@ 316 :> <<
          <<ACTION_INDEX(3), {"anon_sym_POUND"}>>,
          <<ACTION_INDEX(23), {"anon_sym_LBRACE"}>>,
          <<ACTION_INDEX(25), {"anon_sym_DQUOTE"}>>,
          <<ACTION_INDEX(27), {"anon_sym_SQUOTE"}>>,
          <<ACTION_INDEX(29), {"anon_sym_DQUOTE_DQUOTE_DQUOTE"}>>,
          <<ACTION_INDEX(33), {"aux_sym_number_token3"}>>,
          <<ACTION_INDEX(37), {"sym_null"}>>,
          <<ACTION_INDEX(39), {"anon_sym_LBRACK"}>>,
          <<ACTION_INDEX(45), {"sym_identifier"}>>,
          <<ACTION_INDEX(57), {"anon_sym_RBRACK"}>>,
          <<GOTO_STATE(7), {"sym_comment"}>>,
          <<GOTO_STATE(25), {"sym_index_access"}>>,
          <<GOTO_STATE(64), {"sym__expression"}>>,
          <<ACTION_INDEX(5), {"anon_sym_SLASH_SLASH", "anon_sym_SLASH_STAR"}>>,
          <<ACTION_INDEX(31), {"aux_sym_number_token1", "aux_sym_number_token2"}>>,
          <<ACTION_INDEX(35), {"anon_sym_true", "anon_sym_false"}>>,
          <<GOTO_STATE(32), {"sym_string", "sym_number", "sym_boolean", "sym_array", "sym_object", "sym_reference", "sym_function_call", "sym_binary_expression"}>>>>
  @@ 378 :> <<
          <<ACTION_INDEX(3), {"anon_sym_POUND"}>>,
          <<ACTION_INDEX(23), {"anon_sym_LBRACE"}>>,
          <<ACTION_INDEX(25), {"anon_sym_DQUOTE"}>>,
          <<ACTION_INDEX(27), {"anon_sym_SQUOTE"}>>,
          <<ACTION_INDEX(29), {"anon_sym_DQUOTE_DQUOTE_DQUOTE"}>>,
          <<ACTION_INDEX(33), {"aux_sym_number_token3"}>>,
          <<ACTION_INDEX(37), {"sym_null"}>>,
          <<ACTION_INDEX(39), {"anon_sym_LBRACK"}>>,
          <<ACTION_INDEX(45), {"sym_identifier"}>>,
          <<ACTION_INDEX(59), {"anon_sym_RPAREN"}>>,
          <<GOTO_STATE(8), {"sym_comment"}>>,
          <<GOTO_STATE(25), {"sym_index_access"}>>,
          <<GOTO_STATE(67), {"sym__expression"}>>,
          <<ACTION_INDEX(5), {"anon_sym_SLASH_SLASH", "anon_sym_SLASH_STAR"}>>,
          <<ACTION_INDEX(31), {"aux_sym_number_token1", "aux_sym_number_token2"}>>,
          <<ACTION_INDEX(35), {"anon_sym_true", "anon_sym_false"}>>,
          <<GOTO_STATE(32), {"sym_string", "sym_number", "sym_boolean", "sym_array", "sym_object", "sym_reference", "sym_function_call", "sym_binary_expression"}>>>>
  @@ 440 :> <<
          <<ACTION_INDEX(3), {"anon_sym_POUND"}>>,
          <<ACTION_INDEX(23), {"anon_sym_LBRACE"}>>,
          <<ACTION_INDEX(25), {"anon_sym_DQUOTE"}>>,
          <<ACTION_INDEX(27), {"anon_sym_SQUOTE"}>>,
          <<ACTION_INDEX(29), {"anon_sym_DQUOTE_DQUOTE_DQUOTE"}>>,
          <<ACTION_INDEX(33), {"aux_sym_number_token3"}>>,
          <<ACTION_INDEX(37), {"sym_null"}>>,
          <<ACTION_INDEX(39), {"anon_sym_LBRACK"}>>,
          <<ACTION_INDEX(45), {"sym_identifier"}>>,
          <<ACTION_INDEX(61), {"anon_sym_RPAREN"}>>,
          <<GOTO_STATE(9), {"sym_comment"}>>,
          <<GOTO_STATE(25), {"sym_index_access"}>>,
          <<GOTO_STATE(71), {"sym__expression"}>>,
          <<ACTION_INDEX(5), {"anon_sym_SLASH_SLASH", "anon_sym_SLASH_STAR"}>>,
          <<ACTION_INDEX(31), {"aux_sym_number_token1", "aux_sym_number_token2"}>>,
          <<ACTION_INDEX(35), {"anon_sym_true", "anon_sym_false"}>>,
          <<GOTO_STATE(32), {"sym_string", "sym_number", "sym_boolean", "sym_array", "sym_object", "sym_reference", "sym_function_call", "sym_binary_expression"}>>>>
  @@ 502 :> <<
          <<ACTION_INDEX(3), {"anon_sym_POUND"}>>,
          <<ACTION_INDEX(63), {"anon_sym_LBRACE"}>>,
          <<ACTION_INDEX(65), {"anon_sym_DQUOTE"}>>,
          <<ACTION_INDEX(67), {"anon_sym_SQUOTE"}>>,
          <<ACTION_INDEX(69), {"anon_sym_DQUOTE_DQUOTE_DQUOTE"}>>,
          <<ACTION_INDEX(73), {"aux_sym_number_token3"}>>,
          <<ACTION_INDEX(77), {"sym_null"}>>,
          <<ACTION_INDEX(79), {"anon_sym_LBRACK"}>>,
          <<ACTION_INDEX(81), {"sym_identifier"}>>,
          <<GOTO_STATE(10), {"sym_comment"}>>,
          <<GOTO_STATE(55), {"sym_index_access"}>>,
          <<GOTO_STATE(83), {"sym__expression"}>>,
          <<ACTION_INDEX(5), {"anon_sym_SLASH_SLASH", "anon_sym_SLASH_STAR"}>>,
          <<ACTION_INDEX(71), {"aux_sym_number_token1", "aux_sym_number_token2"}>>,
          <<ACTION_INDEX(75), {"anon_sym_true", "anon_sym_false"}>>,
          <<GOTO_STATE(93), {"sym_string", "sym_number", "sym_boolean", "sym_array", "sym_object", "sym_reference", "sym_function_call", "sym_binary_expression"}>>>>
  @@ 561 :> <<
          <<ACTION_INDEX(3), {"anon_sym_POUND"}>>,
          <<ACTION_INDEX(23), {"anon_sym_LBRACE"}>>,
          <<ACTION_INDEX(25), {"anon_sym_DQUOTE"}>>,
          <<ACTION_INDEX(27), {"anon_sym_SQUOTE"}>>,
          <<ACTION_INDEX(29), {"anon_sym_DQUOTE_DQUOTE_DQUOTE"}>>,
          <<ACTION_INDEX(33), {"aux_sym_number_token3"}>>,
          <<ACTION_INDEX(37), {"sym_null"}>>,
          <<ACTION_INDEX(39), {"anon_sym_LBRACK"}>>,
          <<ACTION_INDEX(45), {"sym_identifier"}>>,
          <<GOTO_STATE(11), {"sym_comment"}>>,
          <<GOTO_STATE(25), {"sym_index_access"}>>,
          <<GOTO_STATE(80), {"sym__expression"}>>,
          <<ACTION_INDEX(5), {"anon_sym_SLASH_SLASH", "anon_sym_SLASH_STAR"}>>,
          <<ACTION_INDEX(31), {"aux_sym_number_token1", "aux_sym_number_token2"}>>,
          <<ACTION_INDEX(35), {"anon_sym_true", "anon_sym_false"}>>,
          <<GOTO_STATE(32), {"sym_string", "sym_number", "sym_boolean", "sym_array", "sym_object", "sym_reference", "sym_function_call", "sym_binary_expression"}>>>>
  @@ 620 :> <<
          <<ACTION_INDEX(3), {"anon_sym_POUND"}>>,
          <<ACTION_INDEX(23), {"anon_sym_LBRACE"}>>,
          <<ACTION_INDEX(25), {"anon_sym_DQUOTE"}>>,
          <<ACTION_INDEX(27), {"anon_sym_SQUOTE"}>>,
          <<ACTION_INDEX(29), {"anon_sym_DQUOTE_DQUOTE_DQUOTE"}>>,
          <<ACTION_INDEX(33), {"aux_sym_number_token3"}>>,
          <<ACTION_INDEX(37), {"sym_null"}>>,
          <<ACTION_INDEX(39), {"anon_sym_LBRACK"}>>,
          <<ACTION_INDEX(45), {"sym_identifier"}>>,
          <<GOTO_STATE(12), {"sym_comment"}>>,
          <<GOTO_STATE(25), {"sym_index_access"}>>,
          <<GOTO_STATE(95), {"sym__expression"}>>,
          <<ACTION_INDEX(5), {"anon_sym_SLASH_SLASH", "anon_sym_SLASH_STAR"}>>,
          <<ACTION_INDEX(31), {"aux_sym_number_token1", "aux_sym_number_token2"}>>,
          <<ACTION_INDEX(35), {"anon_sym_true", "anon_sym_false"}>>,
          <<GOTO_STATE(32), {"sym_string", "sym_number", "sym_boolean", "sym_array", "sym_object", "sym_reference", "sym_function_call", "sym_binary_expression"}>>>>
  @@ 679 :> <<
          <<ACTION_INDEX(3), {"anon_sym_POUND"}>>,
          <<ACTION_INDEX(23), {"anon_sym_LBRACE"}>>,
          <<ACTION_INDEX(25), {"anon_sym_DQUOTE"}>>,
          <<ACTION_INDEX(27), {"anon_sym_SQUOTE"}>>,
          <<ACTION_INDEX(29), {"anon_sym_DQUOTE_DQUOTE_DQUOTE"}>>,
          <<ACTION_INDEX(33), {"aux_sym_number_token3"}>>,
          <<ACTION_INDEX(37), {"sym_null"}>>,
          <<ACTION_INDEX(39), {"anon_sym_LBRACK"}>>,
          <<ACTION_INDEX(45), {"sym_identifier"}>>,
          <<GOTO_STATE(13), {"sym_comment"}>>,
          <<GOTO_STATE(25), {"sym_index_access"}>>,
          <<GOTO_STATE(41), {"sym__expression"}>>,
          <<ACTION_INDEX(5), {"anon_sym_SLASH_SLASH", "anon_sym_SLASH_STAR"}>>,
          <<ACTION_INDEX(31), {"aux_sym_number_token1", "aux_sym_number_token2"}>>,
          <<ACTION_INDEX(35), {"anon_sym_true", "anon_sym_false"}>>,
          <<GOTO_STATE(32), {"sym_string", "sym_number", "sym_boolean", "sym_array", "sym_object", "sym_reference", "sym_function_call", "sym_binary_expression"}>>>>
  @@ 738 :> <<
          <<ACTION_INDEX(3), {"anon_sym_POUND"}>>,
          <<ACTION_INDEX(23), {"anon_sym_LBRACE"}>>,
          <<ACTION_INDEX(25), {"anon_sym_DQUOTE"}>>,
          <<ACTION_INDEX(27), {"anon_sym_SQUOTE"}>>,
          <<ACTION_INDEX(29), {"anon_sym_DQUOTE_DQUOTE_DQUOTE"}>>,
          <<ACTION_INDEX(33), {"aux_sym_number_token3"}>>,
          <<ACTION_INDEX(37), {"sym_null"}>>,
          <<ACTION_INDEX(39), {"anon_sym_LBRACK"}>>,
          <<ACTION_INDEX(45), {"sym_identifier"}>>,
          <<GOTO_STATE(14), {"sym_comment"}>>,
          <<GOTO_STATE(25), {"sym_index_access"}>>,
          <<GOTO_STATE(43), {"sym__expression"}>>,
          <<ACTION_INDEX(5), {"anon_sym_SLASH_SLASH", "anon_sym_SLASH_STAR"}>>,
          <<ACTION_INDEX(31), {"aux_sym_number_token1", "aux_sym_number_token2"}>>,
          <<ACTION_INDEX(35), {"anon_sym_true", "anon_sym_false"}>>,
          <<GOTO_STATE(32), {"sym_string", "sym_number", "sym_boolean", "sym_array", "sym_object", "sym_reference", "sym_function_call", "sym_binary_expression"}>>>>
  @@ 797 :> <<
          <<ACTION_INDEX(3), {"anon_sym_POUND"}>>,
          <<ACTION_INDEX(23), {"anon_sym_LBRACE"}>>,
          <<ACTION_INDEX(25), {"anon_sym_DQUOTE"}>>,
          <<ACTION_INDEX(27), {"anon_sym_SQUOTE"}>>,
          <<ACTION_INDEX(29), {"anon_sym_DQUOTE_DQUOTE_DQUOTE"}>>,
          <<ACTION_INDEX(33), {"aux_sym_number_token3"}>>,
          <<ACTION_INDEX(37), {"sym_null"}>>,
          <<ACTION_INDEX(39), {"anon_sym_LBRACK"}>>,
          <<ACTION_INDEX(45), {"sym_identifier"}>>,
          <<GOTO_STATE(15), {"sym_comment"}>>,
          <<GOTO_STATE(25), {"sym_index_access"}>>,
          <<GOTO_STATE(64), {"sym__expression"}>>,
          <<ACTION_INDEX(5), {"anon_sym_SLASH_SLASH", "anon_sym_SLASH_STAR"}>>,
          <<ACTION_INDEX(31), {"aux_sym_number_token1", "aux_sym_number_token2"}>>,
          <<ACTION_INDEX(35), {"anon_sym_true", "anon_sym_false"}>>,
          <<GOTO_STATE(32), {"sym_string", "sym_number", "sym_boolean", "sym_array", "sym_object", "sym_reference", "sym_function_call", "sym_binary_expression"}>>>>
  @@ 856 :> <<
          <<ACTION_INDEX(3), {"anon_sym_POUND"}>>,
          <<ACTION_INDEX(23), {"anon_sym_LBRACE"}>>,
          <<ACTION_INDEX(25), {"anon_sym_DQUOTE"}>>,
          <<ACTION_INDEX(27), {"anon_sym_SQUOTE"}>>,
          <<ACTION_INDEX(29), {"anon_sym_DQUOTE_DQUOTE_DQUOTE"}>>,
          <<ACTION_INDEX(33), {"aux_sym_number_token3"}>>,
          <<ACTION_INDEX(37), {"sym_null"}>>,
          <<ACTION_INDEX(39), {"anon_sym_LBRACK"}>>,
          <<ACTION_INDEX(45), {"sym_identifier"}>>,
          <<GOTO_STATE(16), {"sym_comment"}>>,
          <<GOTO_STATE(25), {"sym_index_access"}>>,
          <<GOTO_STATE(46), {"sym__expression"}>>,
          <<ACTION_INDEX(5), {"anon_sym_SLASH_SLASH", "anon_sym_SLASH_STAR"}>>,
          <<ACTION_INDEX(31), {"aux_sym_number_token1", "aux_sym_number_token2"}>>,
          <<ACTION_INDEX(35), {"anon_sym_true", "anon_sym_false"}>>,
          <<GOTO_STATE(32), {"sym_string", "sym_number", "sym_boolean", "sym_array", "sym_object", "sym_reference", "sym_function_call", "sym_binary_expression"}>>>>
  @@ 915 :> <<
          <<ACTION_INDEX(3), {"anon_sym_POUND"}>>,
          <<GOTO_STATE(17), {"sym_comment"}>>,
          <<ACTION_INDEX(5), {"anon_sym_SLASH_SLASH", "anon_sym_SLASH_STAR"}>>,
          <<ACTION_INDEX(85), {"anon_sym_DQUOTE", "anon_sym_SLASH"}>>,
          <<ACTION_INDEX(83), {"ts_builtin_sym_end", "anon_sym_addon", "anon_sym_signer", "anon_sym_action", "anon_sym_output", "anon_sym_variable", "anon_sym_input", "anon_sym_EQ", "anon_sym_import", "anon_sym_LBRACE", "anon_sym_RBRACE", "anon_sym_SQUOTE", "anon_sym_DQUOTE_DQUOTE_DQUOTE", "anon_sym_COMMA", "anon_sym_RBRACK", "anon_sym_COLON", "anon_sym_RPAREN", "anon_sym_STAR", "anon_sym_PLUS", "anon_sym_DASH"}>>>>
  @@ 952 :> <<
          <<ACTION_INDEX(3), {"anon_sym_POUND"}>>,
          <<ACTION_INDEX(63), {"anon_sym_LBRACE"}>>,
          <<ACTION_INDEX(65), {"anon_sym_DQUOTE"}>>,
          <<ACTION_INDEX(67), {"anon_sym_SQUOTE"}>>,
          <<ACTION_INDEX(69), {"anon_sym_DQUOTE_DQUOTE_DQUOTE"}>>,
          <<ACTION_INDEX(73), {"aux_sym_number_token3"}>>,
          <<ACTION_INDEX(77), {"sym_null"}>>,
          <<ACTION_INDEX(79), {"anon_sym_LBRACK"}>>,
          <<ACTION_INDEX(81), {"sym_identifier"}>>,
          <<GOTO_STATE(18), {"sym_comment"}>>,
          <<GOTO_STATE(55), {"sym_index_access"}>>,
          <<GOTO_STATE(84), {"sym__expression"}>>,
          <<ACTION_INDEX(5), {"anon_sym_SLASH_SLASH", "anon_sym_SLASH_STAR"}>>,
          <<ACTION_INDEX(71), {"aux_sym_number_token1", "aux_sym_number_token2"}>>,
          <<ACTION_INDEX(75), {"anon_sym_true", "anon_sym_false"}>>,
          <<GOTO_STATE(93), {"sym_string", "sym_number", "sym_boolean", "sym_array", "sym_object", "sym_reference", "sym_function_call", "sym_binary_expression"}>>>>
  @@ 1011 :> <<
          <<ACTION_INDEX(3), {"anon_sym_POUND"}>>,
          <<ACTION_INDEX(63), {"anon_sym_LBRACE"}>>,
          <<ACTION_INDEX(65), {"anon_sym_DQUOTE"}>>,
          <<ACTION_INDEX(67), {"anon_sym_SQUOTE"}>>,
          <<ACTION_INDEX(69), {"anon_sym_DQUOTE_DQUOTE_DQUOTE"}>>,
          <<ACTION_INDEX(73), {"aux_sym_number_token3"}>>,
          <<ACTION_INDEX(77), {"sym_null"}>>,
          <<ACTION_INDEX(79), {"anon_sym_LBRACK"}>>,
          <<ACTION_INDEX(81), {"sym_identifier"}>>,
          <<GOTO_STATE(19), {"sym_comment"}>>,
          <<GOTO_STATE(55), {"sym_index_access"}>>,
          <<GOTO_STATE(77), {"sym__expression"}>>,
          <<ACTION_INDEX(5), {"anon_sym_SLASH_SLASH", "anon_sym_SLASH_STAR"}>>,
          <<ACTION_INDEX(71), {"aux_sym_number_token1", "aux_sym_number_token2"}>>,
          <<ACTION_INDEX(75), {"anon_sym_true", "anon_sym_false"}>>,
          <<GOTO_STATE(93), {"sym_string", "sym_number", "sym_boolean", "sym_array", "sym_object", "sym_reference", "sym_function_call", "sym_binary_expression"}>>>>
  @@ 1070 :> <<
          <<ACTION_INDEX(3), {"anon_sym_POUND"}>>,
          <<ACTION_INDEX(23), {"anon_sym_LBRACE"}>>,
          <<ACTION_INDEX(25), {"anon_sym_DQUOTE"}>>,
          <<ACTION_INDEX(27), {"anon_sym_SQUOTE"}>>,
          <<ACTION_INDEX(29), {"anon_sym_DQUOTE_DQUOTE_DQUOTE"}>>,
          <<ACTION_INDEX(33), {"aux_sym_number_token3"}>>,
          <<ACTION_INDEX(37), {"sym_null"}>>,
          <<ACTION_INDEX(39), {"anon_sym_LBRACK"}>>,
          <<ACTION_INDEX(45), {"sym_identifier"}>>,
          <<GOTO_STATE(20), {"sym_comment"}>>,
          <<GOTO_STATE(25), {"sym_index_access"}>>,
          <<GOTO_STATE(96), {"sym__expression"}>>,
          <<ACTION_INDEX(5), {"anon_sym_SLASH_SLASH", "anon_sym_SLASH_STAR"}>>,
          <<ACTION_INDEX(31), {"aux_sym_number_token1", "aux_sym_number_token2"}>>,
          <<ACTION_INDEX(35), {"anon_sym_true", "anon_sym_false"}>>,
          <<GOTO_STATE(32), {"sym_string", "sym_number", "sym_boolean", "sym_array", "sym_object", "sym_reference", "sym_function_call", "sym_binary_expression"}>>>>
  @@ 1129 :> <<
          <<ACTION_INDEX(3), {"anon_sym_POUND"}>>,
          <<ACTION_INDEX(89), {"anon_sym_LBRACK"}>>,
          <<ACTION_INDEX(91), {"anon_sym_DOT"}>>,
          <<ACTION_INDEX(93), {"anon_sym_LPAREN"}>>,
          <<ACTION_INDEX(95), {"anon_sym_SLASH"}>>,
          <<GOTO_STATE(21), {"sym_comment"}>>,
          <<GOTO_STATE(24), {"aux_sym_reference_repeat1"}>>,
          <<ACTION_INDEX(5), {"anon_sym_SLASH_SLASH", "anon_sym_SLASH_STAR"}>>,
          <<ACTION_INDEX(87), {"ts_builtin_sym_end", "anon_sym_addon", "anon_sym_signer", "anon_sym_action", "anon_sym_output", "anon_sym_variable", "anon_sym_input", "anon_sym_import", "anon_sym_RBRACE", "anon_sym_COMMA", "anon_sym_RBRACK", "anon_sym_RPAREN", "anon_sym_STAR", "anon_sym_PLUS", "anon_sym_DASH"}>>>>
  @@ 1172 :> <<
          <<ACTION_INDEX(3), {"anon_sym_POUND"}>>,
          <<ACTION_INDEX(99), {"anon_sym_DOT"}>>,
          <<ACTION_INDEX(102), {"anon_sym_SLASH"}>>,
          <<ACTION_INDEX(5), {"anon_sym_SLASH_SLASH", "anon_sym_SLASH_STAR"}>>,
          <<GOTO_STATE(22), {"sym_comment", "aux_sym_reference_repeat1"}>>,
          <<ACTION_INDEX(97), {"ts_builtin_sym_end", "anon_sym_addon", "anon_sym_signer", "anon_sym_action", "anon_sym_output", "anon_sym_variable", "anon_sym_input", "anon_sym_import", "anon_sym_RBRACE", "anon_sym_COMMA", "anon_sym_RBRACK", "anon_sym_RPAREN", "anon_sym_STAR", "anon_sym_PLUS", "anon_sym_DASH"}>>>>
  @@ 1207 :> <<
          <<ACTION_INDEX(3), {"anon_sym_POUND"}>>,
          <<ACTION_INDEX(89), {"anon_sym_LBRACK"}>>,
          <<ACTION_INDEX(102), {"anon_sym_SLASH"}>>,
          <<GOTO_STATE(23), {"sym_comment"}>>,
          <<ACTION_INDEX(5), {"anon_sym_SLASH_SLASH", "anon_sym_SLASH_STAR"}>>,
          <<ACTION_INDEX(97), {"ts_builtin_sym_end", "anon_sym_addon", "anon_sym_signer", "anon_sym_action", "anon_sym_output", "anon_sym_variable", "anon_sym_input", "anon_sym_import", "anon_sym_RBRACE", "anon_sym_COMMA", "anon_sym_RBRACK", "anon_sym_DOT", "anon_sym_RPAREN", "anon_sym_STAR", "anon_sym_PLUS", "anon_sym_DASH"}>>>>
  @@ 1242 :> <<
          <<ACTION_INDEX(3), {"anon_sym_POUND"}>>,
          <<ACTION_INDEX(91), {"anon_sym_DOT"}>>,
          <<ACTION_INDEX(106), {"anon_sym_SLASH"}>>,
          <<GOTO_STATE(22), {"aux_sym_reference_repeat1"}>>,
          <<GOTO_STATE(24), {"sym_comment"}>>,
          <<ACTION_INDEX(5), {"anon_sym_SLASH_SLASH", "anon_sym_SLASH_STAR"}>>,
          <<ACTION_INDEX(104), {"ts_builtin_sym_end", "anon_sym_addon", "anon_sym_signer", "anon_sym_action", "anon_sym_output", "anon_sym_variable", "anon_sym_input", "anon_sym_import", "anon_sym_RBRACE", "anon_sym_COMMA", "anon_sym_RBRACK", "anon_sym_RPAREN", "anon_sym_STAR", "anon_sym_PLUS", "anon_sym_DASH"}>>>>
  @@ 1279 :> <<
          <<ACTION_INDEX(3), {"anon_sym_POUND"}>>,
          <<ACTION_INDEX(91), {"anon_sym_DOT"}>>,
          <<ACTION_INDEX(95), {"anon_sym_SLASH"}>>,
          <<GOTO_STATE(24), {"aux_sym_reference_repeat1"}>>,
          <<GOTO_STATE(25), {"sym_comment"}>>,
          <<ACTION_INDEX(5), {"anon_sym_SLASH_SLASH", "anon_sym_SLASH_STAR"}>>,
          <<ACTION_INDEX(87), {"ts_builtin_sym_end", "anon_sym_addon", "anon_sym_signer", "anon_sym_action", "anon_sym_output", "anon_sym_variable", "anon_sym_input", "anon_sym_import", "anon_sym_RBRACE", "anon_sym_COMMA", "anon_sym_RBRACK", "anon_sym_RPAREN", "anon_sym_STAR", "anon_sym_PLUS", "anon_sym_DASH"}>>>>
  @@ 1316 :> <<
          <<ACTION_INDEX(3), {"anon_sym_POUND"}>>,
          <<ACTION_INDEX(110), {"anon_sym_SLASH"}>>,
          <<GOTO_STATE(26), {"sym_comment"}>>,
          <<ACTION_INDEX(5), {"anon_sym_SLASH_SLASH", "anon_sym_SLASH_STAR"}>>,
          <<ACTION_INDEX(108), {"ts_builtin_sym_end", "anon_sym_addon", "anon_sym_signer", "anon_sym_action", "anon_sym_output", "anon_sym_variable", "anon_sym_input", "anon_sym_import", "anon_sym_RBRACE", "anon_sym_COMMA", "anon_sym_RBRACK", "anon_sym_DOT", "anon_sym_RPAREN", "anon_sym_STAR", "anon_sym_PLUS", "anon_sym_DASH"}>>>>
  @@ 1348 :> <<
          <<ACTION_INDEX(3), {"anon_sym_POUND"}>>,
          <<ACTION_INDEX(102), {"anon_sym_SLASH"}>>,
          <<GOTO_STATE(27), {"sym_comment"}>>,
          <<ACTION_INDEX(5), {"anon_sym_SLASH_SLASH", "anon_sym_SLASH_STAR"}>>,
          <<ACTION_INDEX(97), {"ts_builtin_sym_end", "anon_sym_addon", "anon_sym_signer", "anon_sym_action", "anon_sym_output", "anon_sym_variable", "anon_sym_input", "anon_sym_import", "anon_sym_RBRACE", "anon_sym_COMMA", "anon_sym_RBRACK", "anon_sym_DOT", "anon_sym_RPAREN", "anon_sym_STAR", "anon_sym_PLUS", "anon_sym_DASH"}>>>>
  @@ 1380 :> <<
          <<ACTION_INDEX(3), {"anon_sym_POUND"}>>,
          <<ACTION_INDEX(9), {"anon_sym_addon"}>>,
          <<ACTION_INDEX(11), {"anon_sym_signer"}>>,
          <<ACTION_INDEX(13), {"anon_sym_action"}>>,
          <<ACTION_INDEX(15), {"anon_sym_output"}>>,
          <<ACTION_INDEX(17), {"anon_sym_variable"}>>,
          <<ACTION_INDEX(19), {"anon_sym_input"}>>,
          <<ACTION_INDEX(21), {"anon_sym_import"}>>,
          <<ACTION_INDEX(112), {"ts_builtin_sym_end"}>>,
          <<GOTO_STATE(28), {"sym_comment"}>>,
          <<GOTO_STATE(29), {"aux_sym_runbook_repeat1"}>>,
          <<GOTO_STATE(48), {"sym__statement"}>>,
          <<ACTION_INDEX(5), {"anon_sym_SLASH_SLASH", "anon_sym_SLASH_STAR"}>>,
          <<GOTO_STATE(51), {"sym_addon_block", "sym_signer_block", "sym_action_block", "sym_output_block", "sym_variable_declaration", "sym_input_declaration", "sym_import_statement"}>>>>
  @@ 1430 :> <<
          <<ACTION_INDEX(3), {"anon_sym_POUND"}>>,
          <<ACTION_INDEX(114), {"ts_builtin_sym_end"}>>,
          <<ACTION_INDEX(116), {"anon_sym_addon"}>>,
          <<ACTION_INDEX(119), {"anon_sym_signer"}>>,
          <<ACTION_INDEX(122), {"anon_sym_action"}>>,
          <<ACTION_INDEX(125), {"anon_sym_output"}>>,
          <<ACTION_INDEX(128), {"anon_sym_variable"}>>,
          <<ACTION_INDEX(131), {"anon_sym_input"}>>,
          <<ACTION_INDEX(134), {"anon_sym_import"}>>,
          <<GOTO_STATE(48), {"sym__statement"}>>,
          <<ACTION_INDEX(5), {"anon_sym_SLASH_SLASH", "anon_sym_SLASH_STAR"}>>,
          <<GOTO_STATE(29), {"sym_comment", "aux_sym_runbook_repeat1"}>>,
          <<GOTO_STATE(51), {"sym_addon_block", "sym_signer_block", "sym_action_block", "sym_output_block", "sym_variable_declaration", "sym_input_declaration", "sym_import_statement"}>>>>
  @@ 1478 :> <<
          <<ACTION_INDEX(3), {"anon_sym_POUND"}>>,
          <<ACTION_INDEX(139), {"anon_sym_SLASH"}>>,
          <<GOTO_STATE(30), {"sym_comment"}>>,
          <<ACTION_INDEX(5), {"anon_sym_SLASH_SLASH", "anon_sym_SLASH_STAR"}>>,
          <<ACTION_INDEX(137), {"ts_builtin_sym_end", "anon_sym_addon", "anon_sym_signer", "anon_sym_action", "anon_sym_output", "anon_sym_variable", "anon_sym_input", "anon_sym_import", "anon_sym_RBRACE", "anon_sym_COMMA", "anon_sym_RBRACK", "anon_sym_RPAREN", "anon_sym_STAR", "anon_sym_PLUS", "anon_sym_DASH"}>>>>
  @@ 1509 :> <<
          <<ACTION_INDEX(3), {"anon_sym_POUND"}>>,
          <<ACTION_INDEX(143), {"anon_sym_SLASH"}>>,
          <<GOTO_STATE(31), {"sym_comment"}>>,
          <<ACTION_INDEX(5), {"anon_sym_SLASH_SLASH", "anon_sym_SLASH_STAR"}>>,
          <<ACTION_INDEX(141), {"ts_builtin_sym_end", "anon_sym_addon", "anon_sym_signer", "anon_sym_action", "anon_sym_output", "anon_sym_variable", "anon_sym_input", "anon_sym_import", "anon_sym_RBRACE", "anon_sym_COMMA", "anon_sym_RBRACK", "anon_sym_RPAREN", "anon_sym_STAR", "anon_sym_PLUS", "anon_sym_DASH"}>>>>
  @@ 1540 :> <<
          <<ACTION_INDEX(3), {"anon_sym_POUND"}>>,
          <<ACTION_INDEX(147), {"anon_sym_SLASH"}>>,
          <<GOTO_STATE(32), {"sym_comment"}>>,
          <<ACTION_INDEX(5), {"anon_sym_SLASH_SLASH", "anon_sym_SLASH_STAR"}>>,
          <<ACTION_INDEX(145), {"ts_builtin_sym_end", "anon_sym_addon", "anon_sym_signer", "anon_sym_action", "anon_sym_output", "anon_sym_variable", "anon_sym_input", "anon_sym_import", "anon_sym_RBRACE", "anon_sym_COMMA", "anon_sym_RBRACK", "anon_sym_RPAREN", "anon_sym_STAR", "anon_sym_PLUS", "anon_sym_DASH"}>>>>
  @@ 1571 :> <<
          <<ACTION_INDEX(3), {"anon_sym_POUND"}>>,
          <<ACTION_INDEX(151), {"anon_sym_SLASH"}>>,
          <<GOTO_STATE(33), {"sym_comment"}>>,
          <<ACTION_INDEX(5), {"anon_sym_SLASH_SLASH", "anon_sym_SLASH_STAR"}>>,
          <<ACTION_INDEX(149), {"ts_builtin_sym_end", "anon_sym_addon", "anon_sym_signer", "anon_sym_action", "anon_sym_output", "anon_sym_variable", "anon_sym_input", "anon_sym_import", "anon_sym_RBRACE", "anon_sym_COMMA", "anon_sym_RBRACK", "anon_sym_RPAREN", "anon_sym_STAR", "anon_sym_PLUS", "anon_sym_DASH"}>>>>
  @@ 1602 :> <<
          <<ACTION_INDEX(3), {"anon_sym_POUND"}>>,
          <<ACTION_INDEX(155), {"anon_sym_SLASH"}>>,
          <<GOTO_STATE(34), {"sym_comment"}>>,
          <<ACTION_INDEX(5), {"anon_sym_SLASH_SLASH", "anon_sym_SLASH_STAR"}>>,
          <<ACTION_INDEX(153), {"ts_builtin_sym_end", "anon_sym_addon", "anon_sym_signer", "anon_sym_action", "anon_sym_output", "anon_sym_variable", "anon_sym_input", "anon_sym_import", "anon_sym_RBRACE", "anon_sym_COMMA", "anon_sym_RBRACK", "anon_sym_RPAREN", "anon_sym_STAR", "anon_sym_PLUS", "anon_sym_DASH"}>>>>
  @@ 1633 :> <<
          <<ACTION_INDEX(3), {"anon_sym_POUND"}>>,
          <<ACTION_INDEX(159), {"anon_sym_SLASH"}>>,
          <<GOTO_STATE(35), {"sym_comment"}>>,
          <<ACTION_INDEX(5), {"anon_sym_SLASH_SLASH", "anon_sym_SLASH_STAR"}>>,
          <<ACTION_INDEX(157), {"ts_builtin_sym_end", "anon_sym_addon", "anon_sym_signer", "anon_sym_action", "anon_sym_output", "anon_sym_variable", "anon_sym_input", "anon_sym_import", "anon_sym_RBRACE", "anon_sym_COMMA", "anon_sym_RBRACK", "anon_sym_RPAREN", "anon_sym_STAR", "anon_sym_PLUS", "anon_sym_DASH"}>>>>
  @@ 1664 :> <<
          <<ACTION_INDEX(3), {"anon_sym_POUND"}>>,
          <<ACTION_INDEX(163), {"anon_sym_SLASH"}>>,
          <<GOTO_STATE(36), {"sym_comment"}>>,
          <<ACTION_INDEX(5), {"anon_sym_SLASH_SLASH", "anon_sym_SLASH_STAR"}>>,
          <<ACTION_INDEX(161), {"ts_builtin_sym_end", "anon_sym_addon", "anon_sym_signer", "anon_sym_action", "anon_sym_output", "anon_sym_variable", "anon_sym_input", "anon_sym_import", "anon_sym_RBRACE", "anon_sym_COMMA", "anon_sym_RBRACK", "anon_sym_RPAREN", "anon_sym_STAR", "anon_sym_PLUS", "anon_sym_DASH"}>>>>
  @@ 1695 :> <<
          <<ACTION_INDEX(3), {"anon_sym_POUND"}>>,
          <<ACTION_INDEX(167), {"anon_sym_SLASH"}>>,
          <<GOTO_STATE(37), {"sym_comment"}>>,
          <<ACTION_INDEX(5), {"anon_sym_SLASH_SLASH", "anon_sym_SLASH_STAR"}>>,
          <<ACTION_INDEX(165), {"ts_builtin_sym_end", "anon_sym_addon", "anon_sym_signer", "anon_sym_action", "anon_sym_output", "anon_sym_variable", "anon_sym_input", "anon_sym_import", "anon_sym_RBRACE", "anon_sym_COMMA", "anon_sym_RBRACK", "anon_sym_RPAREN", "anon_sym_STAR", "anon_sym_PLUS", "anon_sym_DASH"}>>>>
  @@ 1726 :> <<
          <<ACTION_INDEX(3), {"anon_sym_POUND"}>>,
          <<ACTION_INDEX(171), {"anon_sym_SLASH"}>>,
          <<GOTO_STATE(38), {"sym_comment"}>>,
          <<ACTION_INDEX(5), {"anon_sym_SLASH_SLASH", "anon_sym_SLASH_STAR"}>>,
          <<ACTION_INDEX(169), {"ts_builtin_sym_end", "anon_sym_addon", "anon_sym_signer", "anon_sym_action", "anon_sym_output", "anon_sym_variable", "anon_sym_input", "anon_sym_import", "anon_sym_RBRACE", "anon_sym_COMMA", "anon_sym_RBRACK", "anon_sym_RPAREN", "anon_sym_STAR", "anon_sym_PLUS", "anon_sym_DASH"}>>>>
  @@ 1757 :> <<
          <<ACTION_INDEX(3), {"anon_sym_POUND"}>>,
          <<ACTION_INDEX(175), {"anon_sym_SLASH"}>>,
          <<GOTO_STATE(39), {"sym_comment"}>>,
          <<ACTION_INDEX(5), {"anon_sym_SLASH_SLASH", "anon_sym_SLASH_STAR"}>>,
          <<ACTION_INDEX(173), {"ts_builtin_sym_end", "anon_sym_addon", "anon_sym_signer", "anon_sym_action", "anon_sym_output", "anon_sym_variable", "anon_sym_input", "anon_sym_import", "anon_sym_RBRACE", "anon_sym_COMMA", "anon_sym_RBRACK", "anon_sym_RPAREN", "anon_sym_STAR", "anon_sym_PLUS", "anon_sym_DASH"}>>>>
  @@ 1788 :> <<
          <<ACTION_INDEX(3), {"anon_sym_POUND"}>>,
          <<ACTION_INDEX(179), {"anon_sym_SLASH"}>>,
          <<GOTO_STATE(40), {"sym_comment"}>>,
          <<ACTION_INDEX(5), {"anon_sym_SLASH_SLASH", "anon_sym_SLASH_STAR"}>>,
          <<ACTION_INDEX(177), {"ts_builtin_sym_end", "anon_sym_addon", "anon_sym_signer", "anon_sym_action", "anon_sym_output", "anon_sym_variable", "anon_sym_input", "anon_sym_import", "anon_sym_RBRACE", "anon_sym_COMMA", "anon_sym_RBRACK", "anon_sym_RPAREN", "anon_sym_STAR", "anon_sym_PLUS", "anon_sym_DASH"}>>>>
  @@ 1819 :> <<
          <<ACTION_INDEX(3), {"anon_sym_POUND"}>>,
          <<ACTION_INDEX(183), {"anon_sym_SLASH"}>>,
          <<GOTO_STATE(41), {"sym_comment"}>>,
          <<ACTION_INDEX(5), {"anon_sym_SLASH_SLASH", "anon_sym_SLASH_STAR"}>>,
          <<ACTION_INDEX(181), {"ts_builtin_sym_end", "anon_sym_addon", "anon_sym_signer", "anon_sym_action", "anon_sym_output", "anon_sym_variable", "anon_sym_input", "anon_sym_import", "anon_sym_RBRACE", "anon_sym_COMMA", "anon_sym_RBRACK", "anon_sym_RPAREN", "anon_sym_STAR", "anon_sym_PLUS", "anon_sym_DASH"}>>>>
  @@ 1850 :> <<
          <<ACTION_INDEX(3), {"anon_sym_POUND"}>>,
          <<ACTION_INDEX(187), {"anon_sym_SLASH"}>>,
          <<GOTO_STATE(42), {"sym_comment"}>>,
          <<ACTION_INDEX(5), {"anon_sym_SLASH_SLASH", "anon_sym_SLASH_STAR"}>>,
          <<ACTION_INDEX(185), {"ts_builtin_sym_end", "anon_sym_addon", "anon_sym_signer", "anon_sym_action", "anon_sym_output", "anon_sym_variable", "anon_sym_input", "anon_sym_import", "anon_sym_RBRACE", "anon_sym_COMMA", "anon_sym_RBRACK", "anon_sym_RPAREN", "anon_sym_STAR", "anon_sym_PLUS", "anon_sym_DASH"}>>>>
  @@ 1881 :> <<
          <<ACTION_INDEX(3), {"anon_sym_POUND"}>>,
          <<ACTION_INDEX(189), {"anon_sym_STAR"}>>,
          <<ACTION_INDEX(191), {"anon_sym_SLASH"}>>,
          <<GOTO_STATE(43), {"sym_comment"}>>,
          <<ACTION_INDEX(5), {"anon_sym_SLASH_SLASH", "anon_sym_SLASH_STAR"}>>,
          <<ACTION_INDEX(181), {"ts_builtin_sym_end", "anon_sym_addon", "anon_sym_signer", "anon_sym_action", "anon_sym_output", "anon_sym_variable", "anon_sym_input", "anon_sym_import", "anon_sym_RBRACE", "anon_sym_COMMA", "anon_sym_RBRACK", "anon_sym_RPAREN", "anon_sym_PLUS", "anon_sym_DASH"}>>>>
  @@ 1914 :> <<
          <<ACTION_INDEX(3), {"anon_sym_POUND"}>>,
          <<ACTION_INDEX(195), {"anon_sym_SLASH"}>>,
          <<GOTO_STATE(44), {"sym_comment"}>>,
          <<ACTION_INDEX(5), {"anon_sym_SLASH_SLASH", "anon_sym_SLASH_STAR"}>>,
          <<ACTION_INDEX(193), {"ts_builtin_sym_end", "anon_sym_addon", "anon_sym_signer", "anon_sym_action", "anon_sym_output", "anon_sym_variable", "anon_sym_input", "anon_sym_import", "anon_sym_RBRACE", "anon_sym_COMMA", "anon_sym_RBRACK", "anon_sym_RPAREN", "anon_sym_STAR", "anon_sym_PLUS", "anon_sym_DASH"}>>>>
  @@ 1945 :> <<
          <<ACTION_INDEX(3), {"anon_sym_POUND"}>>,
          <<ACTION_INDEX(199), {"anon_sym_SLASH"}>>,
          <<GOTO_STATE(45), {"sym_comment"}>>,
          <<ACTION_INDEX(5), {"anon_sym_SLASH_SLASH", "anon_sym_SLASH_STAR"}>>,
          <<ACTION_INDEX(197), {"ts_builtin_sym_end", "anon_sym_addon", "anon_sym_signer", "anon_sym_action", "anon_sym_output", "anon_sym_variable", "anon_sym_input", "anon_sym_import", "anon_sym_RBRACE", "anon_sym_COMMA", "anon_sym_RBRACK", "anon_sym_RPAREN", "anon_sym_STAR", "anon_sym_PLUS", "anon_sym_DASH"}>>>>
  @@ 1976 :> <<
          <<ACTION_INDEX(3), {"anon_sym_POUND"}>>,
          <<ACTION_INDEX(189), {"anon_sym_STAR"}>>,
          <<ACTION_INDEX(191), {"anon_sym_SLASH"}>>,
          <<GOTO_STATE(46), {"sym_comment"}>>,
          <<ACTION_INDEX(5), {"anon_sym_SLASH_SLASH", "anon_sym_SLASH_STAR"}>>,
          <<ACTION_INDEX(203), {"anon_sym_PLUS", "anon_sym_DASH"}>>,
          <<ACTION_INDEX(201), {"ts_builtin_sym_end", "anon_sym_addon", "anon_sym_signer", "anon_sym_action", "anon_sym_output", "anon_sym_variable", "anon_sym_input", "anon_sym_import"}>>>>
  @@ 2007 :> <<
          <<ACTION_INDEX(3), {"anon_sym_POUND"}>>,
          <<ACTION_INDEX(95), {"anon_sym_SLASH"}>>,
          <<ACTION_INDEX(205), {"anon_sym_LBRACK"}>>,
          <<ACTION_INDEX(207), {"anon_sym_DOT"}>>,
          <<ACTION_INDEX(209), {"anon_sym_LPAREN"}>>,
          <<GOTO_STATE(47), {"sym_comment"}>>,
          <<GOTO_STATE(56), {"aux_sym_reference_repeat1"}>>,
          <<ACTION_INDEX(5), {"anon_sym_SLASH_SLASH", "anon_sym_SLASH_STAR"}>>,
          <<ACTION_INDEX(87), {"anon_sym_RBRACE", "anon_sym_STAR", "anon_sym_PLUS", "anon_sym_DASH", "sym_identifier"}>>>>
  @@ 2040 :> <<
          <<ACTION_INDEX(3), {"anon_sym_POUND"}>>,
          <<GOTO_STATE(48), {"sym_comment"}>>,
          <<ACTION_INDEX(5), {"anon_sym_SLASH_SLASH", "anon_sym_SLASH_STAR"}>>,
          <<ACTION_INDEX(211), {"ts_builtin_sym_end", "anon_sym_addon", "anon_sym_signer", "anon_sym_action", "anon_sym_output", "anon_sym_variable", "anon_sym_input", "anon_sym_import"}>>>>
  @@ 2061 :> <<
          <<ACTION_INDEX(3), {"anon_sym_POUND"}>>,
          <<GOTO_STATE(49), {"sym_comment"}>>,
          <<ACTION_INDEX(5), {"anon_sym_SLASH_SLASH", "anon_sym_SLASH_STAR"}>>,
          <<ACTION_INDEX(213), {"ts_builtin_sym_end", "anon_sym_addon", "anon_sym_signer", "anon_sym_action", "anon_sym_output", "anon_sym_variable", "anon_sym_input", "anon_sym_import"}>>>>
  @@ 2082 :> <<
          <<ACTION_INDEX(3), {"anon_sym_POUND"}>>,
          <<GOTO_STATE(50), {"sym_comment"}>>,
          <<ACTION_INDEX(5), {"anon_sym_SLASH_SLASH", "anon_sym_SLASH_STAR"}>>,
          <<ACTION_INDEX(215), {"ts_builtin_sym_end", "anon_sym_addon", "anon_sym_signer", "anon_sym_action", "anon_sym_output", "anon_sym_variable", "anon_sym_input", "anon_sym_import"}>>>>
  @@ 2103 :> <<
          <<ACTION_INDEX(3), {"anon_sym_POUND"}>>,
          <<GOTO_STATE(51), {"sym_comment"}>>,
          <<ACTION_INDEX(5), {"anon_sym_SLASH_SLASH", "anon_sym_SLASH_STAR"}>>,
          <<ACTION_INDEX(217), {"ts_builtin_sym_end", "anon_sym_addon", "anon_sym_signer", "anon_sym_action", "anon_sym_output", "anon_sym_variable", "anon_sym_input", "anon_sym_import"}>>>>
  @@ 2124 :> <<
          <<ACTION_INDEX(3), {"anon_sym_POUND"}>>,
          <<GOTO_STATE(52), {"sym_comment"}>>,
          <<ACTION_INDEX(5), {"anon_sym_SLASH_SLASH", "anon_sym_SLASH_STAR"}>>,
          <<ACTION_INDEX(219), {"ts_builtin_sym_end", "anon_sym_addon", "anon_sym_signer", "anon_sym_action", "anon_sym_output", "anon_sym_variable", "anon_sym_input", "anon_sym_import"}>>>>
  @@ 2145 :> <<
          <<ACTION_INDEX(3), {"anon_sym_POUND"}>>,
          <<GOTO_STATE(53), {"sym_comment"}>>,
          <<ACTION_INDEX(5), {"anon_sym_SLASH_SLASH", "anon_sym_SLASH_STAR"}>>,
          <<ACTION_INDEX(221), {"ts_builtin_sym_end", "anon_sym_addon", "anon_sym_signer", "anon_sym_action", "anon_sym_output", "anon_sym_variable", "anon_sym_input", "anon_sym_import"}>>>>
  @@ 2166 :> <<
          <<ACTION_INDEX(3), {"anon_sym_POUND"}>>,
          <<GOTO_STATE(54), {"sym_comment"}>>,
          <<ACTION_INDEX(5), {"anon_sym_SLASH_SLASH", "anon_sym_SLASH_STAR"}>>,
          <<ACTION_INDEX(223), {"ts_builtin_sym_end", "anon_sym_addon", "anon_sym_signer", "anon_sym_action", "anon_sym_output", "anon_sym_variable", "anon_sym_input", "anon_sym_import"}>>>>
  @@ 2187 :> <<
          <<ACTION_INDEX(3), {"anon_sym_POUND"}>>,
          <<ACTION_INDEX(95), {"anon_sym_SLASH"}>>,
          <<ACTION_INDEX(207), {"anon_sym_DOT"}>>,
          <<GOTO_STATE(55), {"sym_comment"}>>,
          <<GOTO_STATE(56), {"aux_sym_reference_repeat1"}>>,
          <<ACTION_INDEX(5), {"anon_sym_SLASH_SLASH", "anon_sym_SLASH_STAR"}>>,
          <<ACTION_INDEX(87), {"anon_sym_RBRACE", "anon_sym_STAR", "anon_sym_PLUS", "anon_sym_DASH", "sym_identifier"}>>>>
  @@ 2214 :> <<
          <<ACTION_INDEX(3), {"anon_sym_POUND"}>>,
          <<ACTION_INDEX(106), {"anon_sym_SLASH"}>>,
          <<ACTION_INDEX(207), {"anon_sym_DOT"}>>,
          <<GOTO_STATE(56), {"sym_comment"}>>,
          <<GOTO_STATE(61), {"aux_sym_reference_repeat1"}>>,
          <<ACTION_INDEX(5), {"anon_sym_SLASH_SLASH", "anon_sym_SLASH_STAR"}>>,
          <<ACTION_INDEX(104), {"anon_sym_RBRACE", "anon_sym_STAR", "anon_sym_PLUS", "anon_sym_DASH", "sym_identifier"}>>>>
  @@ 2241 :> <<
          <<ACTION_INDEX(3), {"anon_sym_POUND"}>>,
          <<GOTO_STATE(57), {"sym_comment"}>>,
          <<ACTION_INDEX(5), {"anon_sym_SLASH_SLASH", "anon_sym_SLASH_STAR"}>>,
          <<ACTION_INDEX(225), {"ts_builtin_sym_end", "anon_sym_addon", "anon_sym_signer", "anon_sym_action", "anon_sym_output", "anon_sym_variable", "anon_sym_input", "anon_sym_import"}>>>>
  @@ 2262 :> <<
          <<ACTION_INDEX(3), {"anon_sym_POUND"}>>,
          <<GOTO_STATE(58), {"sym_comment"}>>,
          <<ACTION_INDEX(5), {"anon_sym_SLASH_SLASH", "anon_sym_SLASH_STAR"}>>,
          <<ACTION_INDEX(227), {"ts_builtin_sym_end", "anon_sym_addon", "anon_sym_signer", "anon_sym_action", "anon_sym_output", "anon_sym_variable", "anon_sym_input", "anon_sym_import"}>>>>
  @@ 2283 :> <<
          <<ACTION_INDEX(3), {"anon_sym_POUND"}>>,
          <<ACTION_INDEX(25), {"anon_sym_DQUOTE"}>>,
          <<ACTION_INDEX(27), {"anon_sym_SQUOTE"}>>,
          <<ACTION_INDEX(29), {"anon_sym_DQUOTE_DQUOTE_DQUOTE"}>>,
          <<ACTION_INDEX(229), {"anon_sym_RBRACE"}>>,
          <<ACTION_INDEX(231), {"anon_sym_COMMA"}>>,
          <<ACTION_INDEX(233), {"sym_identifier"}>>,
          <<GOTO_STATE(59), {"sym_comment"}>>,
          <<GOTO_STATE(114), {"sym_object_field"}>>,
          <<GOTO_STATE(140), {"sym_string"}>>,
          <<ACTION_INDEX(5), {"anon_sym_SLASH_SLASH", "anon_sym_SLASH_STAR"}>>>>
  @@ 2318 :> <<
          <<ACTION_INDEX(3), {"anon_sym_POUND"}>>,
          <<ACTION_INDEX(102), {"anon_sym_SLASH"}>>,
          <<ACTION_INDEX(205), {"anon_sym_LBRACK"}>>,
          <<GOTO_STATE(60), {"sym_comment"}>>,
          <<ACTION_INDEX(5), {"anon_sym_SLASH_SLASH", "anon_sym_SLASH_STAR"}>>,
          <<ACTION_INDEX(97), {"anon_sym_RBRACE", "anon_sym_DOT", "anon_sym_STAR", "anon_sym_PLUS", "anon_sym_DASH", "sym_identifier"}>>>>
  @@ 2343 :> <<
          <<ACTION_INDEX(3), {"anon_sym_POUND"}>>,
          <<ACTION_INDEX(102), {"anon_sym_SLASH"}>>,
          <<ACTION_INDEX(235), {"anon_sym_DOT"}>>,
          <<ACTION_INDEX(5), {"anon_sym_SLASH_SLASH", "anon_sym_SLASH_STAR"}>>,
          <<GOTO_STATE(61), {"sym_comment", "aux_sym_reference_repeat1"}>>,
          <<ACTION_INDEX(97), {"anon_sym_RBRACE", "anon_sym_STAR", "anon_sym_PLUS", "anon_sym_DASH", "sym_identifier"}>>>>
  @@ 2368 :> <<
          <<ACTION_INDEX(3), {"anon_sym_POUND"}>>,
          <<ACTION_INDEX(25), {"anon_sym_DQUOTE"}>>,
          <<ACTION_INDEX(27), {"anon_sym_SQUOTE"}>>,
          <<ACTION_INDEX(29), {"anon_sym_DQUOTE_DQUOTE_DQUOTE"}>>,
          <<ACTION_INDEX(233), {"sym_identifier"}>>,
          <<ACTION_INDEX(238), {"anon_sym_RBRACE"}>>,
          <<ACTION_INDEX(240), {"anon_sym_COMMA"}>>,
          <<GOTO_STATE(62), {"sym_comment"}>>,
          <<GOTO_STATE(116), {"sym_object_field"}>>,
          <<GOTO_STATE(140), {"sym_string"}>>,
          <<ACTION_INDEX(5), {"anon_sym_SLASH_SLASH", "anon_sym_SLASH_STAR"}>>>>
  @@ 2403 :> <<
          <<ACTION_INDEX(3), {"anon_sym_POUND"}>>,
          <<GOTO_STATE(63), {"sym_comment"}>>,
          <<ACTION_INDEX(5), {"anon_sym_SLASH_SLASH", "anon_sym_SLASH_STAR"}>>,
          <<ACTION_INDEX(242), {"ts_builtin_sym_end", "anon_sym_addon", "anon_sym_signer", "anon_sym_action", "anon_sym_output", "anon_sym_variable", "anon_sym_input", "anon_sym_import"}>>>>
  @@ 2424 :> <<
          <<ACTION_INDEX(3), {"anon_sym_POUND"}>>,
          <<ACTION_INDEX(189), {"anon_sym_STAR"}>>,
          <<ACTION_INDEX(191), {"anon_sym_SLASH"}>>,
          <<GOTO_STATE(64), {"sym_comment"}>>,
          <<ACTION_INDEX(5), {"anon_sym_SLASH_SLASH", "anon_sym_SLASH_STAR"}>>,
          <<ACTION_INDEX(203), {"anon_sym_PLUS", "anon_sym_DASH"}>>,
          <<ACTION_INDEX(244), {"anon_sym_COMMA", "anon_sym_RBRACK", "anon_sym_RPAREN"}>>>>
  @@ 2450 :> <<
          <<ACTION_INDEX(3), {"anon_sym_POUND"}>>,
          <<ACTION_INDEX(25), {"anon_sym_DQUOTE"}>>,
          <<ACTION_INDEX(27), {"anon_sym_SQUOTE"}>>,
          <<ACTION_INDEX(29), {"anon_sym_DQUOTE_DQUOTE_DQUOTE"}>>,
          <<ACTION_INDEX(233), {"sym_identifier"}>>,
          <<ACTION_INDEX(246), {"anon_sym_RBRACE"}>>,
          <<GOTO_STATE(65), {"sym_comment"}>>,
          <<GOTO_STATE(120), {"sym_object_field"}>>,
          <<GOTO_STATE(140), {"sym_string"}>>,
          <<ACTION_INDEX(5), {"anon_sym_SLASH_SLASH", "anon_sym_SLASH_STAR"}>>>>
  @@ 2482 :> <<
          <<ACTION_INDEX(3), {"anon_sym_POUND"}>>,
          <<ACTION_INDEX(25), {"anon_sym_DQUOTE"}>>,
          <<ACTION_INDEX(27), {"anon_sym_SQUOTE"}>>,
          <<ACTION_INDEX(29), {"anon_sym_DQUOTE_DQUOTE_DQUOTE"}>>,
          <<ACTION_INDEX(233), {"sym_identifier"}>>,
          <<ACTION_INDEX(248), {"anon_sym_RBRACE"}>>,
          <<GOTO_STATE(66), {"sym_comment"}>>,
          <<GOTO_STATE(120), {"sym_object_field"}>>,
          <<GOTO_STATE(140), {"sym_string"}>>,
          <<ACTION_INDEX(5), {"anon_sym_SLASH_SLASH", "anon_sym_SLASH_STAR"}>>>>
  @@ 2514 :> <<
          <<ACTION_INDEX(3), {"anon_sym_POUND"}>>,
          <<ACTION_INDEX(189), {"anon_sym_STAR"}>>,
          <<ACTION_INDEX(191), {"anon_sym_SLASH"}>>,
          <<ACTION_INDEX(250), {"anon_sym_COMMA"}>>,
          <<ACTION_INDEX(252), {"anon_sym_RPAREN"}>>,
          <<GOTO_STATE(67), {"sym_comment"}>>,
          <<GOTO_STATE(117), {"aux_sym_array_repeat1"}>>,
          <<ACTION_INDEX(5), {"anon_sym_SLASH_SLASH", "anon_sym_SLASH_STAR"}>>,
          <<ACTION_INDEX(203), {"anon_sym_PLUS", "anon_sym_DASH"}>>>>
  @@ 2544 :> <<
          <<ACTION_INDEX(3), {"anon_sym_POUND"}>>,
          <<ACTION_INDEX(102), {"anon_sym_SLASH"}>>,
          <<GOTO_STATE(68), {"sym_comment"}>>,
          <<ACTION_INDEX(5), {"anon_sym_SLASH_SLASH", "anon_sym_SLASH_STAR"}>>,
          <<ACTION_INDEX(97), {"anon_sym_RBRACE", "anon_sym_DOT", "anon_sym_STAR", "anon_sym_PLUS", "anon_sym_DASH", "sym_identifier"}>>>>
  @@ 2566 :> <<
          <<ACTION_INDEX(3), {"anon_sym_POUND"}>>,
          <<ACTION_INDEX(25), {"anon_sym_DQUOTE"}>>,
          <<ACTION_INDEX(27), {"anon_sym_SQUOTE"}>>,
          <<ACTION_INDEX(29), {"anon_sym_DQUOTE_DQUOTE_DQUOTE"}>>,
          <<ACTION_INDEX(233), {"sym_identifier"}>>,
          <<ACTION_INDEX(254), {"anon_sym_RBRACE"}>>,
          <<GOTO_STATE(69), {"sym_comment"}>>,
          <<GOTO_STATE(120), {"sym_object_field"}>>,
          <<GOTO_STATE(140), {"sym_string"}>>,
          <<ACTION_INDEX(5), {"anon_sym_SLASH_SLASH", "anon_sym_SLASH_STAR"}>>>>
  @@ 2598 :> <<
          <<ACTION_INDEX(3), {"anon_sym_POUND"}>>,
          <<ACTION_INDEX(189), {"anon_sym_STAR"}>>,
          <<ACTION_INDEX(191), {"anon_sym_SLASH"}>>,
          <<ACTION_INDEX(256), {"anon_sym_COMMA"}>>,
          <<ACTION_INDEX(258), {"anon_sym_RBRACK"}>>,
          <<GOTO_STATE(70), {"sym_comment"}>>,
          <<GOTO_STATE(112), {"aux_sym_array_repeat1"}>>,
          <<ACTION_INDEX(5), {"anon_sym_SLASH_SLASH", "anon_sym_SLASH_STAR"}>>,
          <<ACTION_INDEX(203), {"anon_sym_PLUS", "anon_sym_DASH"}>>>>
  @@ 2628 :> <<
          <<ACTION_INDEX(3), {"anon_sym_POUND"}>>,
          <<ACTION_INDEX(189), {"anon_sym_STAR"}>>,
          <<ACTION_INDEX(191), {"anon_sym_SLASH"}>>,
          <<ACTION_INDEX(250), {"anon_sym_COMMA"}>>,
          <<ACTION_INDEX(260), {"anon_sym_RPAREN"}>>,
          <<GOTO_STATE(71), {"sym_comment"}>>,
          <<GOTO_STATE(113), {"aux_sym_array_repeat1"}>>,
          <<ACTION_INDEX(5), {"anon_sym_SLASH_SLASH", "anon_sym_SLASH_STAR"}>>,
          <<ACTION_INDEX(203), {"anon_sym_PLUS", "anon_sym_DASH"}>>>>
  @@ 2658 :> <<
          <<ACTION_INDEX(3), {"anon_sym_POUND"}>>,
          <<ACTION_INDEX(110), {"anon_sym_SLASH"}>>,
          <<GOTO_STATE(72), {"sym_comment"}>>,
          <<ACTION_INDEX(5), {"anon_sym_SLASH_SLASH", "anon_sym_SLASH_STAR"}>>,
          <<ACTION_INDEX(108), {"anon_sym_RBRACE", "anon_sym_DOT", "anon_sym_STAR", "anon_sym_PLUS", "anon_sym_DASH", "sym_identifier"}>>>>
  @@ 2680 :> <<
          <<ACTION_INDEX(3), {"anon_sym_POUND"}>>,
          <<ACTION_INDEX(189), {"anon_sym_STAR"}>>,
          <<ACTION_INDEX(191), {"anon_sym_SLASH"}>>,
          <<ACTION_INDEX(262), {"anon_sym_COMMA"}>>,
          <<ACTION_INDEX(264), {"anon_sym_RBRACK"}>>,
          <<GOTO_STATE(73), {"sym_comment"}>>,
          <<GOTO_STATE(110), {"aux_sym_array_repeat1"}>>,
          <<ACTION_INDEX(5), {"anon_sym_SLASH_SLASH", "anon_sym_SLASH_STAR"}>>,
          <<ACTION_INDEX(203), {"anon_sym_PLUS", "anon_sym_DASH"}>>>>
  @@ 2710 :> <<
          <<ACTION_INDEX(3), {"anon_sym_POUND"}>>,
          <<ACTION_INDEX(25), {"anon_sym_DQUOTE"}>>,
          <<ACTION_INDEX(27), {"anon_sym_SQUOTE"}>>,
          <<ACTION_INDEX(29), {"anon_sym_DQUOTE_DQUOTE_DQUOTE"}>>,
          <<ACTION_INDEX(233), {"sym_identifier"}>>,
          <<ACTION_INDEX(266), {"anon_sym_RBRACE"}>>,
          <<GOTO_STATE(74), {"sym_comment"}>>,
          <<GOTO_STATE(120), {"sym_object_field"}>>,
          <<GOTO_STATE(140), {"sym_string"}>>,
          <<ACTION_INDEX(5), {"anon_sym_SLASH_SLASH", "anon_sym_SLASH_STAR"}>>>>
  @@ 2742 :> <<
          <<ACTION_INDEX(3), {"anon_sym_POUND"}>>,
          <<ACTION_INDEX(159), {"anon_sym_SLASH"}>>,
          <<GOTO_STATE(75), {"sym_comment"}>>,
          <<ACTION_INDEX(5), {"anon_sym_SLASH_SLASH", "anon_sym_SLASH_STAR"}>>,
          <<ACTION_INDEX(157), {"anon_sym_RBRACE", "anon_sym_STAR", "anon_sym_PLUS", "anon_sym_DASH", "sym_identifier"}>>>>
  @@ 2763 :> <<
          <<ACTION_INDEX(3), {"anon_sym_POUND"}>>,
          <<ACTION_INDEX(195), {"anon_sym_SLASH"}>>,
          <<GOTO_STATE(76), {"sym_comment"}>>,
          <<ACTION_INDEX(5), {"anon_sym_SLASH_SLASH", "anon_sym_SLASH_STAR"}>>,
          <<ACTION_INDEX(193), {"anon_sym_RBRACE", "anon_sym_STAR", "anon_sym_PLUS", "anon_sym_DASH", "sym_identifier"}>>>>
  @@ 2784 :> <<
          <<ACTION_INDEX(3), {"anon_sym_POUND"}>>,
          <<ACTION_INDEX(270), {"anon_sym_STAR"}>>,
          <<ACTION_INDEX(272), {"anon_sym_SLASH"}>>,
          <<GOTO_STATE(77), {"sym_comment"}>>,
          <<ACTION_INDEX(5), {"anon_sym_SLASH_SLASH", "anon_sym_SLASH_STAR"}>>,
          <<ACTION_INDEX(268), {"anon_sym_RBRACE", "sym_identifier"}>>,
          <<ACTION_INDEX(274), {"anon_sym_PLUS", "anon_sym_DASH"}>>>>
  @@ 2809 :> <<
          <<ACTION_INDEX(3), {"anon_sym_POUND"}>>,
          <<ACTION_INDEX(175), {"anon_sym_SLASH"}>>,
          <<GOTO_STATE(78), {"sym_comment"}>>,
          <<ACTION_INDEX(5), {"anon_sym_SLASH_SLASH", "anon_sym_SLASH_STAR"}>>,
          <<ACTION_INDEX(173), {"anon_sym_RBRACE", "anon_sym_STAR", "anon_sym_PLUS", "anon_sym_DASH", "sym_identifier"}>>>>
  @@ 2830 :> <<
          <<ACTION_INDEX(3), {"anon_sym_POUND"}>>,
          <<ACTION_INDEX(25), {"anon_sym_DQUOTE"}>>,
          <<ACTION_INDEX(27), {"anon_sym_SQUOTE"}>>,
          <<ACTION_INDEX(29), {"anon_sym_DQUOTE_DQUOTE_DQUOTE"}>>,
          <<ACTION_INDEX(233), {"sym_identifier"}>>,
          <<GOTO_STATE(79), {"sym_comment"}>>,
          <<GOTO_STATE(120), {"sym_object_field"}>>,
          <<GOTO_STATE(140), {"sym_string"}>>,
          <<ACTION_INDEX(5), {"anon_sym_SLASH_SLASH", "anon_sym_SLASH_STAR"}>>>>
  @@ 2859 :> <<
          <<ACTION_INDEX(3), {"anon_sym_POUND"}>>,
          <<ACTION_INDEX(189), {"anon_sym_STAR"}>>,
          <<ACTION_INDEX(191), {"anon_sym_SLASH"}>>,
          <<GOTO_STATE(80), {"sym_comment"}>>,
          <<ACTION_INDEX(5), {"anon_sym_SLASH_SLASH", "anon_sym_SLASH_STAR"}>>,
          <<ACTION_INDEX(203), {"anon_sym_PLUS", "anon_sym_DASH"}>>,
          <<ACTION_INDEX(276), {"anon_sym_RBRACE", "anon_sym_COMMA"}>>>>
  @@ 2884 :> <<
          <<ACTION_INDEX(3), {"anon_sym_POUND"}>>,
          <<ACTION_INDEX(199), {"anon_sym_SLASH"}>>,
          <<GOTO_STATE(81), {"sym_comment"}>>,
          <<ACTION_INDEX(5), {"anon_sym_SLASH_SLASH", "anon_sym_SLASH_STAR"}>>,
          <<ACTION_INDEX(197), {"anon_sym_RBRACE", "anon_sym_STAR", "anon_sym_PLUS", "anon_sym_DASH", "sym_identifier"}>>>>
  @@ 2905 :> <<
          <<ACTION_INDEX(3), {"anon_sym_POUND"}>>,
          <<ACTION_INDEX(171), {"anon_sym_SLASH"}>>,
          <<GOTO_STATE(82), {"sym_comment"}>>,
          <<ACTION_INDEX(5), {"anon_sym_SLASH_SLASH", "anon_sym_SLASH_STAR"}>>,
          <<ACTION_INDEX(169), {"anon_sym_RBRACE", "anon_sym_STAR", "anon_sym_PLUS", "anon_sym_DASH", "sym_identifier"}>>>>
  @@ 2926 :> <<
          <<ACTION_INDEX(3), {"anon_sym_POUND"}>>,
          <<ACTION_INDEX(270), {"anon_sym_STAR"}>>,
          <<ACTION_INDEX(272), {"anon_sym_SLASH"}>>,
          <<GOTO_STATE(83), {"sym_comment"}>>,
          <<ACTION_INDEX(5), {"anon_sym_SLASH_SLASH", "anon_sym_SLASH_STAR"}>>,
          <<ACTION_INDEX(181), {"anon_sym_RBRACE", "anon_sym_PLUS", "anon_sym_DASH", "sym_identifier"}>>>>
  @@ 2949 :> <<
          <<ACTION_INDEX(3), {"anon_sym_POUND"}>>,
          <<ACTION_INDEX(183), {"anon_sym_SLASH"}>>,
          <<GOTO_STATE(84), {"sym_comment"}>>,
          <<ACTION_INDEX(5), {"anon_sym_SLASH_SLASH", "anon_sym_SLASH_STAR"}>>,
          <<ACTION_INDEX(181), {"anon_sym_RBRACE", "anon_sym_STAR", "anon_sym_PLUS", "anon_sym_DASH", "sym_identifier"}>>>>
  @@ 2970 :> <<
          <<ACTION_INDEX(3), {"anon_sym_POUND"}>>,
          <<ACTION_INDEX(187), {"anon_sym_SLASH"}>>,
          <<GOTO_STATE(85), {"sym_comment"}>>,
          <<ACTION_INDEX(5), {"anon_sym_SLASH_SLASH", "anon_sym_SLASH_STAR"}>>,
          <<ACTION_INDEX(185), {"anon_sym_RBRACE", "anon_sym_STAR", "anon_sym_PLUS", "anon_sym_DASH", "sym_identifier"}>>>>
  @@ 2991 :> <<
          <<ACTION_INDEX(3), {"anon_sym_POUND"}>>,
          <<ACTION_INDEX(179), {"anon_sym_SLASH"}>>,
          <<GOTO_STATE(86), {"sym_comment"}>>,
          <<ACTION_INDEX(5), {"anon_sym_SLASH_SLASH", "anon_sym_SLASH_STAR"}>>,
          <<ACTION_INDEX(177), {"anon_sym_RBRACE", "anon_sym_STAR", "anon_sym_PLUS", "anon_sym_DASH", "sym_identifier"}>>>>
  @@ 3012 :> <<
          <<ACTION_INDEX(3), {"anon_sym_POUND"}>>,
          <<ACTION_INDEX(85), {"anon_sym_SLASH"}>>,
          <<GOTO_STATE(87), {"sym_comment"}>>,
          <<ACTION_INDEX(5), {"anon_sym_SLASH_SLASH", "anon_sym_SLASH_STAR"}>>,
          <<ACTION_INDEX(83), {"anon_sym_RBRACE", "anon_sym_STAR", "anon_sym_PLUS", "anon_sym_DASH", "sym_identifier"}>>>>
  @@ 3033 :> <<
          <<ACTION_INDEX(3), {"anon_sym_POUND"}>>,
          <<ACTION_INDEX(139), {"anon_sym_SLASH"}>>,
          <<GOTO_STATE(88), {"sym_comment"}>>,
          <<ACTION_INDEX(5), {"anon_sym_SLASH_SLASH", "anon_sym_SLASH_STAR"}>>,
          <<ACTION_INDEX(137), {"anon_sym_RBRACE", "anon_sym_STAR", "anon_sym_PLUS", "anon_sym_DASH", "sym_identifier"}>>>>
  @@ 3054 :> <<
          <<ACTION_INDEX(3), {"anon_sym_POUND"}>>,
          <<ACTION_INDEX(155), {"anon_sym_SLASH"}>>,
          <<GOTO_STATE(89), {"sym_comment"}>>,
          <<ACTION_INDEX(5), {"anon_sym_SLASH_SLASH", "anon_sym_SLASH_STAR"}>>,
          <<ACTION_INDEX(153), {"anon_sym_RBRACE", "anon_sym_STAR", "anon_sym_PLUS", "anon_sym_DASH", "sym_identifier"}>>>>
  @@ 3075 :> <<
          <<ACTION_INDEX(3), {"anon_sym_POUND"}>>,
          <<ACTION_INDEX(163), {"anon_sym_SLASH"}>>,
          <<GOTO_STATE(90), {"sym_comment"}>>,
          <<ACTION_INDEX(5), {"anon_sym_SLASH_SLASH", "anon_sym_SLASH_STAR"}>>,
          <<ACTION_INDEX(161), {"anon_sym_RBRACE", "anon_sym_STAR", "anon_sym_PLUS", "anon_sym_DASH", "sym_identifier"}>>>>
  @@ 3096 :> <<
          <<ACTION_INDEX(3), {"anon_sym_POUND"}>>,
          <<ACTION_INDEX(143), {"anon_sym_SLASH"}>>,
          <<GOTO_STATE(91), {"sym_comment"}>>,
          <<ACTION_INDEX(5), {"anon_sym_SLASH_SLASH", "anon_sym_SLASH_STAR"}>>,
          <<ACTION_INDEX(141), {"anon_sym_RBRACE", "anon_sym_STAR", "anon_sym_PLUS", "anon_sym_DASH", "sym_identifier"}>>>>
  @@ 3117 :> <<
          <<ACTION_INDEX(3), {"anon_sym_POUND"}>>,
          <<ACTION_INDEX(167), {"anon_sym_SLASH"}>>,
          <<GOTO_STATE(92), {"sym_comment"}>>,
          <<ACTION_INDEX(5), {"anon_sym_SLASH_SLASH", "anon_sym_SLASH_STAR"}>>,
          <<ACTION_INDEX(165), {"anon_sym_RBRACE", "anon_sym_STAR", "anon_sym_PLUS", "anon_sym_DASH", "sym_identifier"}>>>>
  @@ 3138 :> <<
          <<ACTION_INDEX(3), {"anon_sym_POUND"}>>,
          <<ACTION_INDEX(147), {"anon_sym_SLASH"}>>,
          <<GOTO_STATE(93), {"sym_comment"}>>,
          <<ACTION_INDEX(5), {"anon_sym_SLASH_SLASH", "anon_sym_SLASH_STAR"}>>,
          <<ACTION_INDEX(145), {"anon_sym_RBRACE", "anon_sym_STAR", "anon_sym_PLUS", "anon_sym_DASH", "sym_identifier"}>>>>
  @@ 3159 :> <<
          <<ACTION_INDEX(3), {"anon_sym_POUND"}>>,
          <<ACTION_INDEX(151), {"anon_sym_SLASH"}>>,
          <<GOTO_STATE(94), {"sym_comment"}>>,
          <<ACTION_INDEX(5), {"anon_sym_SLASH_SLASH", "anon_sym_SLASH_STAR"}>>,
          <<ACTION_INDEX(149), {"anon_sym_RBRACE", "anon_sym_STAR", "anon_sym_PLUS", "anon_sym_DASH", "sym_identifier"}>>>>
  @@ 3180 :> <<
          <<ACTION_INDEX(3), {"anon_sym_POUND"}>>,
          <<ACTION_INDEX(189), {"anon_sym_STAR"}>>,
          <<ACTION_INDEX(191), {"anon_sym_SLASH"}>>,
          <<ACTION_INDEX(278), {"anon_sym_RBRACK"}>>,
          <<GOTO_STATE(95), {"sym_comment"}>>,
          <<ACTION_INDEX(5), {"anon_sym_SLASH_SLASH", "anon_sym_SLASH_STAR"}>>,
          <<ACTION_INDEX(203), {"anon_sym_PLUS", "anon_sym_DASH"}>>>>
  @@ 3204 :> <<
          <<ACTION_INDEX(3), {"anon_sym_POUND"}>>,
          <<ACTION_INDEX(189), {"anon_sym_STAR"}>>,
          <<ACTION_INDEX(191), {"anon_sym_SLASH"}>>,
          <<ACTION_INDEX(280), {"anon_sym_RBRACK"}>>,
          <<GOTO_STATE(96), {"sym_comment"}>>,
          <<ACTION_INDEX(5), {"anon_sym_SLASH_SLASH", "anon_sym_SLASH_STAR"}>>,
          <<ACTION_INDEX(203), {"anon_sym_PLUS", "anon_sym_DASH"}>>>>
  @@ 3228 :> <<
          <<ACTION_INDEX(3), {"anon_sym_POUND"}>>,
          <<ACTION_INDEX(282), {"anon_sym_RBRACE"}>>,
          <<ACTION_INDEX(284), {"sym_identifier"}>>,
          <<GOTO_STATE(97), {"sym_comment"}>>,
          <<GOTO_STATE(103), {"aux_sym_block_repeat1"}>>,
          <<GOTO_STATE(123), {"sym_attribute"}>>,
          <<ACTION_INDEX(5), {"anon_sym_SLASH_SLASH", "anon_sym_SLASH_STAR"}>>>>
  @@ 3251 :> <<
          <<ACTION_INDEX(3), {"anon_sym_POUND"}>>,
          <<ACTION_INDEX(25), {"anon_sym_DQUOTE"}>>,
          <<ACTION_INDEX(27), {"anon_sym_SQUOTE"}>>,
          <<ACTION_INDEX(29), {"anon_sym_DQUOTE_DQUOTE_DQUOTE"}>>,
          <<GOTO_STATE(98), {"sym_comment"}>>,
          <<GOTO_STATE(121), {"sym_string"}>>,
          <<ACTION_INDEX(5), {"anon_sym_SLASH_SLASH", "anon_sym_SLASH_STAR"}>>>>
  @@ 3274 :> <<
          <<ACTION_INDEX(3), {"anon_sym_POUND"}>>,
          <<ACTION_INDEX(25), {"anon_sym_DQUOTE"}>>,
          <<ACTION_INDEX(27), {"anon_sym_SQUOTE"}>>,
          <<ACTION_INDEX(29), {"anon_sym_DQUOTE_DQUOTE_DQUOTE"}>>,
          <<GOTO_STATE(99), {"sym_comment"}>>,
          <<GOTO_STATE(124), {"sym_string"}>>,
          <<ACTION_INDEX(5), {"anon_sym_SLASH_SLASH", "anon_sym_SLASH_STAR"}>>>>
  @@ 3297 :> <<
          <<ACTION_INDEX(3), {"anon_sym_POUND"}>>,
          <<ACTION_INDEX(25), {"anon_sym_DQUOTE"}>>,
          <<ACTION_INDEX(27), {"anon_sym_SQUOTE"}>>,
          <<ACTION_INDEX(29), {"anon_sym_DQUOTE_DQUOTE_DQUOTE"}>>,
          <<GOTO_STATE(50), {"sym_string"}>>,
          <<GOTO_STATE(100), {"sym_comment"}>>,
          <<ACTION_INDEX(5), {"anon_sym_SLASH_SLASH", "anon_sym_SLASH_STAR"}>>>>
  @@ 3320 :> <<
          <<ACTION_INDEX(3), {"anon_sym_POUND"}>>,
          <<ACTION_INDEX(25), {"anon_sym_DQUOTE"}>>,
          <<ACTION_INDEX(27), {"anon_sym_SQUOTE"}>>,
          <<ACTION_INDEX(29), {"anon_sym_DQUOTE_DQUOTE_DQUOTE"}>>,
          <<GOTO_STATE(101), {"sym_comment"}>>,
          <<GOTO_STATE(125), {"sym_string"}>>,
          <<ACTION_INDEX(5), {"anon_sym_SLASH_SLASH", "anon_sym_SLASH_STAR"}>>>>
  @@ 3343 :> <<
          <<ACTION_INDEX(3), {"anon_sym_POUND"}>>,
          <<ACTION_INDEX(25), {"anon_sym_DQUOTE"}>>,
          <<ACTION_INDEX(27), {"anon_sym_SQUOTE"}>>,
          <<ACTION_INDEX(29), {"anon_sym_DQUOTE_DQUOTE_DQUOTE"}>>,
          <<GOTO_STATE(102), {"sym_comment"}>>,
          <<GOTO_STATE(122), {"sym_string"}>>,
          <<ACTION_INDEX(5), {"anon_sym_SLASH_SLASH", "anon_sym_SLASH_STAR"}>>>>
  @@ 3366 :> <<
          <<ACTION_INDEX(3), {"anon_sym_POUND"}>>,
          <<ACTION_INDEX(284), {"sym_identifier"}>>,
          <<ACTION_INDEX(286), {"anon_sym_RBRACE"}>>,
          <<GOTO_STATE(103), {"sym_comment"}>>,
          <<GOTO_STATE(104), {"aux_sym_block_repeat1"}>>,
          <<GOTO_STATE(123), {"sym_attribute"}>>,
          <<ACTION_INDEX(5), {"anon_sym_SLASH_SLASH", "anon_sym_SLASH_STAR"}>>>>
  @@ 3389 :> <<
          <<ACTION_INDEX(3), {"anon_sym_POUND"}>>,
          <<ACTION_INDEX(288), {"anon_sym_RBRACE"}>>,
          <<ACTION_INDEX(290), {"sym_identifier"}>>,
          <<GOTO_STATE(123), {"sym_attribute"}>>,
          <<ACTION_INDEX(5), {"anon_sym_SLASH_SLASH", "anon_sym_SLASH_STAR"}>>,
          <<GOTO_STATE(104), {"sym_comment", "aux_sym_block_repeat1"}>>>>
  @@ 3410 :> <<
          <<ACTION_INDEX(3), {"anon_sym_POUND"}>>,
          <<ACTION_INDEX(25), {"anon_sym_DQUOTE"}>>,
          <<ACTION_INDEX(27), {"anon_sym_SQUOTE"}>>,
          <<ACTION_INDEX(29), {"anon_sym_DQUOTE_DQUOTE_DQUOTE"}>>,
          <<GOTO_STATE(105), {"sym_comment"}>>,
          <<GOTO_STATE(146), {"sym_string"}>>,
          <<ACTION_INDEX(5), {"anon_sym_SLASH_SLASH", "anon_sym_SLASH_STAR"}>>>>
  @@ 3433 :> <<
          <<ACTION_INDEX(3), {"anon_sym_POUND"}>>,
          <<ACTION_INDEX(25), {"anon_sym_DQUOTE"}>>,
          <<ACTION_INDEX(27), {"anon_sym_SQUOTE"}>>,
          <<ACTION_INDEX(29), {"anon_sym_DQUOTE_DQUOTE_DQUOTE"}>>,
          <<GOTO_STATE(106), {"sym_comment"}>>,
          <<GOTO_STATE(107), {"sym_string"}>>,
          <<ACTION_INDEX(5), {"anon_sym_SLASH_SLASH", "anon_sym_SLASH_STAR"}>>>>
  @@ 3456 :> <<
          <<ACTION_INDEX(3), {"anon_sym_POUND"}>>,
          <<ACTION_INDEX(25), {"anon_sym_DQUOTE"}>>,
          <<ACTION_INDEX(27), {"anon_sym_SQUOTE"}>>,
          <<ACTION_INDEX(29), {"anon_sym_DQUOTE_DQUOTE_DQUOTE"}>>,
          <<GOTO_STATE(107), {"sym_comment"}>>,
          <<GOTO_STATE(126), {"sym_string"}>>,
          <<ACTION_INDEX(5), {"anon_sym_SLASH_SLASH", "anon_sym_SLASH_STAR"}>>>>
  @@ 3479 :> <<
          <<ACTION_INDEX(3), {"anon_sym_POUND"}>>,
          <<ACTION_INDEX(293), {"anon_sym_COMMA"}>>,
          <<ACTION_INDEX(5), {"anon_sym_SLASH_SLASH", "anon_sym_SLASH_STAR"}>>,
          <<ACTION_INDEX(244), {"anon_sym_RBRACK", "anon_sym_RPAREN"}>>,
          <<GOTO_STATE(108), {"sym_comment", "aux_sym_array_repeat1"}>>>>
  @@ 3498 :> <<
          <<ACTION_INDEX(3), {"anon_sym_POUND"}>>,
          <<ACTION_INDEX(25), {"anon_sym_DQUOTE"}>>,
          <<ACTION_INDEX(27), {"anon_sym_SQUOTE"}>>,
          <<ACTION_INDEX(29), {"anon_sym_DQUOTE_DQUOTE_DQUOTE"}>>,
          <<GOTO_STATE(98), {"sym_string"}>>,
          <<GOTO_STATE(109), {"sym_comment"}>>,
          <<ACTION_INDEX(5), {"anon_sym_SLASH_SLASH", "anon_sym_SLASH_STAR"}>>>>
  @@ 3521 :> <<
          <<ACTION_INDEX(3), {"anon_sym_POUND"}>>,
          <<ACTION_INDEX(53), {"anon_sym_RBRACK"}>>,
          <<ACTION_INDEX(296), {"anon_sym_COMMA"}>>,
          <<GOTO_STATE(108), {"aux_sym_array_repeat1"}>>,
          <<GOTO_STATE(110), {"sym_comment"}>>,
          <<ACTION_INDEX(5), {"anon_sym_SLASH_SLASH", "anon_sym_SLASH_STAR"}>>>>
  @@ 3541 :> <<
          <<ACTION_INDEX(3), {"anon_sym_POUND"}>>,
          <<ACTION_INDEX(254), {"anon_sym_RBRACE"}>>,
          <<ACTION_INDEX(298), {"anon_sym_COMMA"}>>,
          <<GOTO_STATE(111), {"sym_comment"}>>,
          <<GOTO_STATE(115), {"aux_sym_object_repeat1"}>>,
          <<ACTION_INDEX(5), {"anon_sym_SLASH_SLASH", "anon_sym_SLASH_STAR"}>>>>
  @@ 3561 :> <<
          <<ACTION_INDEX(3), {"anon_sym_POUND"}>>,
          <<ACTION_INDEX(57), {"anon_sym_RBRACK"}>>,
          <<ACTION_INDEX(300), {"anon_sym_COMMA"}>>,
          <<GOTO_STATE(108), {"aux_sym_array_repeat1"}>>,
          <<GOTO_STATE(112), {"sym_comment"}>>,
          <<ACTION_INDEX(5), {"anon_sym_SLASH_SLASH", "anon_sym_SLASH_STAR"}>>>>
  @@ 3581 :> <<
          <<ACTION_INDEX(3), {"anon_sym_POUND"}>>,
          <<ACTION_INDEX(250), {"anon_sym_COMMA"}>>,
          <<ACTION_INDEX(302), {"anon_sym_RPAREN"}>>,
          <<GOTO_STATE(108), {"aux_sym_array_repeat1"}>>,
          <<GOTO_STATE(113), {"sym_comment"}>>,
          <<ACTION_INDEX(5), {"anon_sym_SLASH_SLASH", "anon_sym_SLASH_STAR"}>>>>
  @@ 3601 :> <<
          <<ACTION_INDEX(3), {"anon_sym_POUND"}>>,
          <<ACTION_INDEX(304), {"anon_sym_RBRACE"}>>,
          <<ACTION_INDEX(306), {"anon_sym_COMMA"}>>,
          <<GOTO_STATE(114), {"sym_comment"}>>,
          <<GOTO_STATE(118), {"aux_sym_object_repeat1"}>>,
          <<ACTION_INDEX(5), {"anon_sym_SLASH_SLASH", "anon_sym_SLASH_STAR"}>>>>
  @@ 3621 :> <<
          <<ACTION_INDEX(3), {"anon_sym_POUND"}>>,
          <<ACTION_INDEX(308), {"anon_sym_RBRACE"}>>,
          <<ACTION_INDEX(310), {"anon_sym_COMMA"}>>,
          <<ACTION_INDEX(5), {"anon_sym_SLASH_SLASH", "anon_sym_SLASH_STAR"}>>,
          <<GOTO_STATE(115), {"sym_comment", "aux_sym_object_repeat1"}>>>>
  @@ 3639 :> <<
          <<ACTION_INDEX(3), {"anon_sym_POUND"}>>,
          <<ACTION_INDEX(313), {"anon_sym_RBRACE"}>>,
          <<ACTION_INDEX(315), {"anon_sym_COMMA"}>>,
          <<GOTO_STATE(111), {"aux_sym_object_repeat1"}>>,
          <<GOTO_STATE(116), {"sym_comment"}>>,
          <<ACTION_INDEX(5), {"anon_sym_SLASH_SLASH", "anon_sym_SLASH_STAR"}>>>>
  @@ 3659 :> <<
          <<ACTION_INDEX(3), {"anon_sym_POUND"}>>,
          <<ACTION_INDEX(250), {"anon_sym_COMMA"}>>,
          <<ACTION_INDEX(317), {"anon_sym_RPAREN"}>>,
          <<GOTO_STATE(108), {"aux_sym_array_repeat1"}>>,
          <<GOTO_STATE(117), {"sym_comment"}>>,
          <<ACTION_INDEX(5), {"anon_sym_SLASH_SLASH", "anon_sym_SLASH_STAR"}>>>>
  @@ 3679 :> <<
          <<ACTION_INDEX(3), {"anon_sym_POUND"}>>,
          <<ACTION_INDEX(266), {"anon_sym_RBRACE"}>>,
          <<ACTION_INDEX(319), {"anon_sym_COMMA"}>>,
          <<GOTO_STATE(115), {"aux_sym_object_repeat1"}>>,
          <<GOTO_STATE(118), {"sym_comment"}>>,
          <<ACTION_INDEX(5), {"anon_sym_SLASH_SLASH", "anon_sym_SLASH_STAR"}>>>>
  @@ 3699 :> <<
          <<ACTION_INDEX(3), {"anon_sym_POUND"}>>,
          <<ACTION_INDEX(321), {"sym_identifier"}>>,
          <<GOTO_STATE(68), {"sym_index_access"}>>,
          <<GOTO_STATE(119), {"sym_comment"}>>,
          <<ACTION_INDEX(5), {"anon_sym_SLASH_SLASH", "anon_sym_SLASH_STAR"}>>>>
  @@ 3716 :> <<
          <<ACTION_INDEX(3), {"anon_sym_POUND"}>>,
          <<GOTO_STATE(120), {"sym_comment"}>>,
          <<ACTION_INDEX(5), {"anon_sym_SLASH_SLASH", "anon_sym_SLASH_STAR"}>>,
          <<ACTION_INDEX(308), {"anon_sym_RBRACE", "anon_sym_COMMA"}>>>>
  @@ 3731 :> <<
          <<ACTION_INDEX(3), {"anon_sym_POUND"}>>,
          <<ACTION_INDEX(323), {"anon_sym_LBRACE"}>>,
          <<GOTO_STATE(58), {"sym_block"}>>,
          <<GOTO_STATE(121), {"sym_comment"}>>,
          <<ACTION_INDEX(5), {"anon_sym_SLASH_SLASH", "anon_sym_SLASH_STAR"}>>>>
  @@ 3748 :> <<
          <<ACTION_INDEX(3), {"anon_sym_POUND"}>>,
          <<ACTION_INDEX(323), {"anon_sym_LBRACE"}>>,
          <<GOTO_STATE(53), {"sym_block"}>>,
          <<GOTO_STATE(122), {"sym_comment"}>>,
          <<ACTION_INDEX(5), {"anon_sym_SLASH_SLASH", "anon_sym_SLASH_STAR"}>>>>
  @@ 3765 :> <<
          <<ACTION_INDEX(3), {"anon_sym_POUND"}>>,
          <<GOTO_STATE(123), {"sym_comment"}>>,
          <<ACTION_INDEX(5), {"anon_sym_SLASH_SLASH", "anon_sym_SLASH_STAR"}>>,
          <<ACTION_INDEX(325), {"anon_sym_RBRACE", "sym_identifier"}>>>>
  @@ 3780 :> <<
          <<ACTION_INDEX(3), {"anon_sym_POUND"}>>,
          <<ACTION_INDEX(323), {"anon_sym_LBRACE"}>>,
          <<GOTO_STATE(52), {"sym_block"}>>,
          <<GOTO_STATE(124), {"sym_comment"}>>,
          <<ACTION_INDEX(5), {"anon_sym_SLASH_SLASH", "anon_sym_SLASH_STAR"}>>>>
  @@ 3797 :> <<
          <<ACTION_INDEX(3), {"anon_sym_POUND"}>>,
          <<ACTION_INDEX(323), {"anon_sym_LBRACE"}>>,
          <<GOTO_STATE(49), {"sym_block"}>>,
          <<GOTO_STATE(125), {"sym_comment"}>>,
          <<ACTION_INDEX(5), {"anon_sym_SLASH_SLASH", "anon_sym_SLASH_STAR"}>>>>
  @@ 3814 :> <<
          <<ACTION_INDEX(3), {"anon_sym_POUND"}>>,
          <<ACTION_INDEX(323), {"anon_sym_LBRACE"}>>,
          <<GOTO_STATE(57), {"sym_block"}>>,
          <<GOTO_STATE(126), {"sym_comment"}>>,
          <<ACTION_INDEX(5), {"anon_sym_SLASH_SLASH", "anon_sym_SLASH_STAR"}>>>>
  @@ 3831 :> <<
          <<ACTION_INDEX(3), {"anon_sym_POUND"}>>,
          <<ACTION_INDEX(327), {"sym_identifier"}>>,
          <<GOTO_STATE(27), {"sym_index_access"}>>,
          <<GOTO_STATE(127), {"sym_comment"}>>,
          <<ACTION_INDEX(5), {"anon_sym_SLASH_SLASH", "anon_sym_SLASH_STAR"}>>>>
  @@ 3848 :> <<
          <<ACTION_INDEX(3), {"anon_sym_POUND"}>>,
          <<ACTION_INDEX(258), {"anon_sym_RBRACK"}>>,
          <<GOTO_STATE(128), {"sym_comment"}>>,
          <<ACTION_INDEX(5), {"anon_sym_SLASH_SLASH", "anon_sym_SLASH_STAR"}>>>>
  @@ 3862 :> <<
          <<ACTION_INDEX(3), {"anon_sym_POUND"}>>,
          <<ACTION_INDEX(329), {"anon_sym_SQUOTE"}>>,
          <<GOTO_STATE(129), {"sym_comment"}>>,
          <<ACTION_INDEX(5), {"anon_sym_SLASH_SLASH", "anon_sym_SLASH_STAR"}>>>>
  @@ 3876 :> <<
          <<ACTION_INDEX(3), {"anon_sym_POUND"}>>,
          <<ACTION_INDEX(331), {"anon_sym_SQUOTE"}>>,
          <<GOTO_STATE(130), {"sym_comment"}>>,
          <<ACTION_INDEX(5), {"anon_sym_SLASH_SLASH", "anon_sym_SLASH_STAR"}>>>>
  @@ 3890 :> <<
          <<ACTION_INDEX(3), {"anon_sym_POUND"}>>,
          <<ACTION_INDEX(331), {"anon_sym_DQUOTE_DQUOTE_DQUOTE"}>>,
          <<GOTO_STATE(131), {"sym_comment"}>>,
          <<ACTION_INDEX(5), {"anon_sym_SLASH_SLASH", "anon_sym_SLASH_STAR"}>>>>
  @@ 3904 :> <<
          <<ACTION_INDEX(333), {"aux_sym_string_token2"}>>,
          <<ACTION_INDEX(335), {"anon_sym_POUND"}>>,
          <<GOTO_STATE(132), {"sym_comment"}>>,
          <<ACTION_INDEX(337), {"anon_sym_SLASH_SLASH", "anon_sym_SLASH_STAR"}>>>>
  @@ 3918 :> <<
          <<ACTION_INDEX(3), {"anon_sym_POUND"}>>,
          <<ACTION_INDEX(339), {"anon_sym_EQ"}>>,
          <<GOTO_STATE(133), {"sym_comment"}>>,
          <<ACTION_INDEX(5), {"anon_sym_SLASH_SLASH", "anon_sym_SLASH_STAR"}>>>>
  @@ 3932 :> <<
          <<ACTION_INDEX(3), {"anon_sym_POUND"}>>,
          <<ACTION_INDEX(313), {"anon_sym_RBRACE"}>>,
          <<GOTO_STATE(134), {"sym_comment"}>>,
          <<ACTION_INDEX(5), {"anon_sym_SLASH_SLASH", "anon_sym_SLASH_STAR"}>>>>
  @@ 3946 :> <<
          <<ACTION_INDEX(335), {"anon_sym_POUND"}>>,
          <<ACTION_INDEX(341), {"aux_sym_string_token1"}>>,
          <<GOTO_STATE(135), {"sym_comment"}>>,
          <<ACTION_INDEX(337), {"anon_sym_SLASH_SLASH", "anon_sym_SLASH_STAR"}>>>>
  @@ 3960 :> <<
          <<ACTION_INDEX(3), {"anon_sym_POUND"}>>,
          <<ACTION_INDEX(264), {"anon_sym_RBRACK"}>>,
          <<GOTO_STATE(136), {"sym_comment"}>>,
          <<ACTION_INDEX(5), {"anon_sym_SLASH_SLASH", "anon_sym_SLASH_STAR"}>>>>
  @@ 3974 :> <<
          <<ACTION_INDEX(335), {"anon_sym_POUND"}>>,
          <<ACTION_INDEX(343), {"aux_sym_string_token3"}>>,
          <<GOTO_STATE(137), {"sym_comment"}>>,
          <<ACTION_INDEX(337), {"anon_sym_SLASH_SLASH", "anon_sym_SLASH_STAR"}>>>>
  @@ 3988 :> <<
          <<ACTION_INDEX(3), {"anon_sym_POUND"}>>,
          <<ACTION_INDEX(329), {"anon_sym_DQUOTE_DQUOTE_DQUOTE"}>>,
          <<GOTO_STATE(138), {"sym_comment"}>>,
          <<ACTION_INDEX(5), {"anon_sym_SLASH_SLASH", "anon_sym_SLASH_STAR"}>>>>
  @@ 4002 :> <<
          <<ACTION_INDEX(3), {"anon_sym_POUND"}>>,
          <<ACTION_INDEX(345), {"anon_sym_SLASH"}>>,
          <<GOTO_STATE(139), {"sym_comment"}>>,
          <<ACTION_INDEX(5), {"anon_sym_SLASH_SLASH", "anon_sym_SLASH_STAR"}>>>>
  @@ 4016 :> <<
          <<ACTION_INDEX(3), {"anon_sym_POUND"}>>,
          <<ACTION_INDEX(347), {"anon_sym_COLON"}>>,
          <<GOTO_STATE(140), {"sym_comment"}>>,
          <<ACTION_INDEX(5), {"anon_sym_SLASH_SLASH", "anon_sym_SLASH_STAR"}>>>>
  @@ 4030 :> <<
          <<ACTION_INDEX(3), {"anon_sym_POUND"}>>,
          <<ACTION_INDEX(331), {"anon_sym_DQUOTE"}>>,
          <<GOTO_STATE(141), {"sym_comment"}>>,
          <<ACTION_INDEX(5), {"anon_sym_SLASH_SLASH", "anon_sym_SLASH_STAR"}>>>>
  @@ 4044 :> <<
          <<ACTION_INDEX(3), {"anon_sym_POUND"}>>,
          <<ACTION_INDEX(349), {"ts_builtin_sym_end"}>>,
          <<GOTO_STATE(142), {"sym_comment"}>>,
          <<ACTION_INDEX(5), {"anon_sym_SLASH_SLASH", "anon_sym_SLASH_STAR"}>>>>
  @@ 4058 :> <<
          <<ACTION_INDEX(335), {"anon_sym_POUND"}>>,
          <<ACTION_INDEX(351), {"aux_sym_comment_token1"}>>,
          <<GOTO_STATE(143), {"sym_comment"}>>,
          <<ACTION_INDEX(337), {"anon_sym_SLASH_SLASH", "anon_sym_SLASH_STAR"}>>>>
  @@ 4072 :> <<
          <<ACTION_INDEX(3), {"anon_sym_POUND"}>>,
          <<ACTION_INDEX(304), {"anon_sym_RBRACE"}>>,
          <<GOTO_STATE(144), {"sym_comment"}>>,
          <<ACTION_INDEX(5), {"anon_sym_SLASH_SLASH", "anon_sym_SLASH_STAR"}>>>>
  @@ 4086 :> <<
          <<ACTION_INDEX(335), {"anon_sym_POUND"}>>,
          <<ACTION_INDEX(353), {"aux_sym_comment_token2"}>>,
          <<GOTO_STATE(145), {"sym_comment"}>>,
          <<ACTION_INDEX(337), {"anon_sym_SLASH_SLASH", "anon_sym_SLASH_STAR"}>>>>
  @@ 4100 :> <<
          <<ACTION_INDEX(3), {"anon_sym_POUND"}>>,
          <<ACTION_INDEX(355), {"anon_sym_EQ"}>>,
          <<GOTO_STATE(146), {"sym_comment"}>>,
          <<ACTION_INDEX(5), {"anon_sym_SLASH_SLASH", "anon_sym_SLASH_STAR"}>>>>
  @@ 4114 :> <<
          <<ACTION_INDEX(335), {"anon_sym_POUND"}>>,
          <<ACTION_INDEX(357), {"aux_sym_string_token3"}>>,
          <<GOTO_STATE(147), {"sym_comment"}>>,
          <<ACTION_INDEX(337), {"anon_sym_SLASH_SLASH", "anon_sym_SLASH_STAR"}>>>>
  @@ 4128 :> <<
          <<ACTION_INDEX(3), {"anon_sym_POUND"}>>,
          <<ACTION_INDEX(329), {"anon_sym_DQUOTE"}>>,
          <<GOTO_STATE(148), {"sym_comment"}>>,
          <<ACTION_INDEX(5), {"anon_sym_SLASH_SLASH", "anon_sym_SLASH_STAR"}>>>>
  @@ 4142 :> <<
          <<ACTION_INDEX(335), {"anon_sym_POUND"}>>,
          <<ACTION_INDEX(359), {"aux_sym_string_token1"}>>,
          <<GOTO_STATE(149), {"sym_comment"}>>,
          <<ACTION_INDEX(337), {"anon_sym_SLASH_SLASH", "anon_sym_SLASH_STAR"}>>>>
  @@ 4156 :> <<
          <<ACTION_INDEX(335), {"anon_sym_POUND"}>>,
          <<ACTION_INDEX(361), {"aux_sym_string_token2"}>>,
          <<GOTO_STATE(150), {"sym_comment"}>>,
          <<ACTION_INDEX(337), {"anon_sym_SLASH_SLASH", "anon_sym_SLASH_STAR"}>>>>
  @@ 4170 :> <<
          <<ACTION_INDEX(363), {"ts_builtin_sym_end"}>>>>
  @@ 4174 :> <<
          <<ACTION_INDEX(365), {"ts_builtin_sym_end"}>>>>

ts_small_parse_table_map ==
     SMALL_STATE(2) :> 0 @@ SMALL_STATE(3) :> 65 @@ SMALL_STATE(4) :> 130 @@ SMALL_STATE(5) :> 192
  @@ SMALL_STATE(6) :> 254 @@ SMALL_STATE(7) :> 316 @@ SMALL_STATE(8) :> 378 @@ SMALL_STATE(9) :> 440
  @@ SMALL_STATE(10) :> 502 @@ SMALL_STATE(11) :> 561 @@ SMALL_STATE(12) :> 620 @@ SMALL_STATE(13) :> 679
  @@ SMALL_STATE(14) :> 738 @@ SMALL_STATE(15) :> 797 @@ SMALL_STATE(16) :> 856 @@ SMALL_STATE(17) :> 915
  @@ SMALL_STATE(18) :> 952 @@ SMALL_STATE(19) :> 1011 @@ SMALL_STATE(20) :> 1070 @@ SMALL_STATE(21) :> 1129
  @@ SMALL_STATE(22) :> 1172 @@ SMALL_STATE(23) :> 1207 @@ SMALL_STATE(24) :> 1242 @@ SMALL_STATE(25) :> 1279
  @@ SMALL_STATE(26) :> 1316 @@ SMALL_STATE(27) :> 1348 @@ SMALL_STATE(28) :> 1380 @@ SMALL_STATE(29) :> 1430
  @@ SMALL_STATE(30) :> 1478 @@ SMALL_STATE(31) :> 1509 @@ SMALL_STATE(32) :> 1540 @@ SMALL_STATE(33) :> 1571
  @@ SMALL_STATE(34) :> 1602 @@ SMALL_STATE(35) :> 1633 @@ SMALL_STATE(36) :> 1664 @@ SMALL_STATE(37) :> 1695
  @@ SMALL_STATE(38) :> 1726 @@ SMALL_STATE(39) :> 1757 @@ SMALL_STATE(40) :> 1788 @@ SMALL_STATE(41) :> 1819
  @@ SMALL_STATE(42) :> 1850 @@ SMALL_STATE(43) :> 1881 @@ SMALL_STATE(44) :> 1914 @@ SMALL_STATE(45) :> 1945
  @@ SMALL_STATE(46) :> 1976 @@ SMALL_STATE(47) :> 2007 @@ SMALL_STATE(48) :> 2040 @@ SMALL_STATE(49) :> 2061
  @@ SMALL_STATE(50) :> 2082 @@ SMALL_STATE(51) :> 2103 @@ SMALL_STATE(52) :> 2124 @@ SMALL_STATE(53) :> 2145
  @@ SMALL_STATE(54) :> 2166 @@ SMALL_STATE(55) :> 2187 @@ SMALL_STATE(56) :> 2214 @@ SMALL_STATE(57) :> 2241
  @@ SMALL_STATE(58) :> 2262 @@ SMALL_STATE(59) :> 2283 @@ SMALL_STATE(60) :> 2318 @@ SMALL_STATE(61) :> 2343
  @@ SMALL_STATE(62) :> 2368 @@ SMALL_STATE(63) :> 2403 @@ SMALL_STATE(64) :> 2424 @@ SMALL_STATE(65) :> 2450
  @@ SMALL_STATE(66) :> 2482 @@ SMALL_STATE(67) :> 2514 @@ SMALL_STATE(68) :> 2544 @@ SMALL_STATE(69) :> 2566
  @@ SMALL_STATE(70) :> 2598 @@ SMALL_STATE(71) :> 2628 @@ SMALL_STATE(72) :> 2658 @@ SMALL_STATE(73) :> 2680
  @@ SMALL_STATE(74) :> 2710 @@ SMALL_STATE(75) :> 2742 @@ SMALL_STATE(76) :> 2763 @@ SMALL_STATE(77) :> 2784
  @@ SMALL_STATE(78) :> 2809 @@ SMALL_STATE(79) :> 2830 @@ SMALL_STATE(80) :> 2859 @@ SMALL_STATE(81) :> 2884
  @@ SMALL_STATE(82) :> 2905 @@ SMALL_STATE(83) :> 2926 @@ SMALL_STATE(84) :> 2949 @@ SMALL_STATE(85) :> 2970
  @@ SMALL_STATE(86) :> 2991 @@ SMALL_STATE(87) :> 3012 @@ SMALL_STATE(88) :> 3033 @@ SMALL_STATE(89) :> 3054
  @@ SMALL_STATE(90) :> 3075 @@ SMALL_STATE(91) :> 3096 @@ SMALL_STATE(92) :> 3117 @@ SMALL_STATE(93) :> 3138
  @@ SMALL_STATE(94) :> 3159 @@ SMALL_STATE(95) :> 3180 @@ SMALL_STATE(96) :> 3204 @@ SMALL_STATE(97) :> 3228
  @@ SMALL_STATE(98) :> 3251 @@ SMALL_STATE(99) :> 3274 @@ SMALL_STATE(100) :> 3297 @@ SMALL_STATE(101) :> 3320
  @@ SMALL_STATE(102) :> 3343 @@ SMALL_STATE(103) :> 3366 @@ SMALL_STATE(104) :> 3389 @@ SMALL_STATE(105) :> 3410
  @@ SMALL_STATE(106) :> 3433 @@ SMALL_STATE(107) :> 3456 @@ SMALL_STATE(108) :> 3479 @@ SMALL_STATE(109) :> 3498
  @@ SMALL_STATE(110) :> 3521 @@ SMALL_STATE(111) :> 3541 @@ SMALL_STATE(112) :> 3561 @@ SMALL_STATE(113) :> 3581
  @@ SMALL_STATE(114) :> 3601 @@ SMALL_STATE(115) :> 3621 @@ SMALL_STATE(116) :> 3639 @@ SMALL_STATE(117) :> 3659
  @@ SMALL_STATE(118) :> 3679 @@ SMALL_STATE(119) :> 3699 @@ SMALL_STATE(120) :> 3716 @@ SMALL_STATE(121) :> 3731
  @@ SMALL_STATE(122) :> 3748 @@ SMALL_STATE(123) :> 3765 @@ SMALL_STATE(124) :> 3780 @@ SMALL_STATE(125) :> 3797
  @@ SMALL_STATE(126) :> 3814 @@ SMALL_STATE(127) :> 3831 @@ SMALL_STATE(128) :> 3848 @@ SMALL_STATE(129) :> 3862
  @@ SMALL_STATE(130) :> 3876 @@ SMALL_STATE(131) :> 3890 @@ SMALL_STATE(132) :> 3904 @@ SMALL_STATE(133) :> 3918
  @@ SMALL_STATE(134) :> 3932 @@ SMALL_STATE(135) :> 3946 @@ SMALL_STATE(136) :> 3960 @@ SMALL_STATE(137) :> 3974
  @@ SMALL_STATE(138) :> 3988 @@ SMALL_STATE(139) :> 4002 @@ SMALL_STATE(140) :> 4016 @@ SMALL_STATE(141) :> 4030
  @@ SMALL_STATE(142) :> 4044 @@ SMALL_STATE(143) :> 4058 @@ SMALL_STATE(144) :> 4072 @@ SMALL_STATE(145) :> 4086
  @@ SMALL_STATE(146) :> 4100 @@ SMALL_STATE(147) :> 4114 @@ SMALL_STATE(148) :> 4128 @@ SMALL_STATE(149) :> 4142
  @@ SMALL_STATE(150) :> 4156 @@ SMALL_STATE(151) :> 4170 @@ SMALL_STATE(152) :> 4174

(* Fields: production id -> slice of ts_field_map_entries. *)
ts_field_map_slices ==
     0 :> [index |-> 0, length |-> 0]
  @@ 1 :> [index |-> 0, length |-> 1]
  @@ 2 :> [index |-> 1, length |-> 2]
  @@ 3 :> [index |-> 3, length |-> 2]
  @@ 4 :> [index |-> 5, length |-> 3]
  @@ 5 :> [index |-> 8, length |-> 2]
  @@ 6 :> [index |-> 10, length |-> 2]
  @@ 7 :> [index |-> 12, length |-> 1]
  @@ 8 :> [index |-> 13, length |-> 2]
  @@ 9 :> [index |-> 15, length |-> 3]

ts_field_map_entries ==
  <<[field_id |-> "field_path", child_index |-> 1],
    [field_id |-> "field_config", child_index |-> 2],
    [field_id |-> "field_network", child_index |-> 1],
    [field_id |-> "field_config", child_index |-> 2],
    [field_id |-> "field_name", child_index |-> 1],
    [field_id |-> "field_config", child_index |-> 3],
    [field_id |-> "field_name", child_index |-> 1],
    [field_id |-> "field_type", child_index |-> 2],
    [field_id |-> "field_name", child_index |-> 1],
    [field_id |-> "field_value", child_index |-> 3],
    [field_id |-> "field_key", child_index |-> 0],
    [field_id |-> "field_value", child_index |-> 2],
    [field_id |-> "field_name", child_index |-> 0],
    [field_id |-> "field_arguments", child_index |-> 2],
    [field_id |-> "field_name", child_index |-> 0],
    [field_id |-> "field_arguments", child_index |-> 2],
    [field_id |-> "field_arguments", child_index |-> 3],
    [field_id |-> "field_name", child_index |-> 0]>>

ts_symbol_metadata ==
  [ts_builtin_sym_end |-> [visible |-> FALSE, named |-> TRUE],
   anon_sym_addon |-> [visible |-> TRUE, named |-> FALSE],
   anon_sym_signer |-> [visible |-> TRUE, named |-> FALSE],
   anon_sym_action |-> [visible |-> TRUE, named |-> FALSE],
   anon_sym_output |-> [visible |-> TRUE, named |-> FALSE],
   anon_sym_variable |-> [visible |-> TRUE, named |-> FALSE],
   anon_sym_input |-> [visible |-> TRUE, named |-> FALSE],
   anon_sym_EQ |-> [visible |-> TRUE, named |-> FALSE],
   anon_sym_import |-> [visible |-> TRUE, named |-> FALSE],
   anon_sym_LBRACE |-> [visible |-> TRUE, named |-> FALSE],
   anon_sym_RBRACE |-> [visible |-> TRUE, named |-> FALSE],
   anon_sym_DQUOTE |-> [visible |-> TRUE, named |-> FALSE],
   aux_sym_string_token1 |-> [visible |-> FALSE, named |-> FALSE],
   anon_sym_SQUOTE |-> [visible |-> TRUE, named |-> FALSE],
   aux_sym_string_token2 |-> [visible |-> FALSE, named |-> FALSE],
   anon_sym_DQUOTE_DQUOTE_DQUOTE |-> [visible |-> TRUE, named |-> FALSE],
   aux_sym_string_token3 |-> [visible |-> FALSE, named |-> FALSE],
   aux_sym_number_token1 |-> [visible |-> FALSE, named |-> FALSE],
   aux_sym_number_token2 |-> [visible |-> FALSE, named |-> FALSE],
   aux_sym_number_token3 |-> [visible |-> FALSE, named |-> FALSE],
   anon_sym_true |-> [visible |-> TRUE, named |-> FALSE],
   anon_sym_false |-> [visible |-> TRUE, named |-> FALSE],
   sym_null |-> [visible |-> TRUE, named |-> TRUE],
   anon_sym_LBRACK |-> [visible |-> TRUE, named |-> FALSE],
   anon_sym_COMMA |-> [visible |-> TRUE, named |-> FALSE],
   anon_sym_RBRACK |-> [visible |-> TRUE, named |-> FALSE],
   anon_sym_COLON |-> [visible |-> TRUE, named |-> FALSE],
   anon_sym_DOT |-> [visible |-> TRUE, named |-> FALSE],
   anon_sym_LPAREN |-> [visible |-> TRUE, named |-> FALSE],
   anon_sym_RPAREN |-> [visible |-> TRUE, named |-> FALSE],
   anon_sym_STAR |-> [visible |-> TRUE, named |-> FALSE],
   anon_sym_SLASH |-> [visible |-> TRUE, named |-> FALSE],
   anon_sym_PLUS |-> [visible |-> TRUE, named |-> FALSE],
   anon_sym_DASH |-> [visible |-> TRUE, named |-> FALSE],
   sym_identifier |-> [visible |-> TRUE, named |-> TRUE],
   anon_sym_POUND |-> [visible |-> TRUE, named |-> FALSE],
   aux_sym_comment_token1 |-> [visible |-> FALSE, named |-> FALSE],
   anon_sym_SLASH_SLASH |-> [visible |-> TRUE, named |-> FALSE],
   anon_sym_SLASH_STAR |-> [visible |-> TRUE, named |-> FALSE],
   aux_sym_comment_token2 |-> [visible |-> FALSE, named |-> FALSE],
   sym_runbook |-> [visible |-> TRUE, named |-> TRUE],
   sym__statement |-> [visible |-> FALSE, named |-> TRUE],
   sym_addon_block |-> [visible |-> TRUE, named |-> TRUE],
   sym_signer_block |-> [visible |-> TRUE, named |-> TRUE],
   sym_action_block |-> [visible |-> TRUE, named |-> TRUE],
   sym_output_block |-> [visible |-> TRUE, named |-> TRUE],
   sym_variable_declaration |-> [visible |-> TRUE, named |-> TRUE],
   sym_input_declaration |-> [visible |-> TRUE, named |-> TRUE],
   sym_import_statement |-> [visible |-> TRUE, named |-> TRUE],
   sym_block |-> [visible |-> TRUE, named |-> TRUE],
   sym_attribute |-> [visible |-> TRUE, named |-> TRUE],
   sym__expression |-> [visible |-> FALSE, named |-> TRUE],
   sym_string |-> [visible |-> TRUE, named |-> TRUE],
   sym_number |-> [visible |-> TRUE, named |-> TRUE],
   sym_boolean |-> [visible |-> TRUE, named |-> TRUE],
   sym_array |-> [visible |-> TRUE, named |-> TRUE],
   sym_object |-> [visible |-> TRUE, named |-> TRUE],
   sym_object_field |-> [visible |-> TRUE, named |-> TRUE],
   sym_reference |-> [visible |-> TRUE, named |-> TRUE],
   sym_index_access |-> [visible |-> TRUE, named |-> TRUE],
   sym_function_call |-> [visible |-> TRUE, named |-> TRUE],
   sym_binary_expression |-> [visible |-> TRUE, named |-> TRUE],
   sym_comment |-> [visible |-> TRUE, named |-> TRUE],
   aux_sym_runbook_repeat1 |-> [visible |-> FALSE, named |-> FALSE],
   aux_sym_block_repeat1 |-> [visible |-> FALSE, named |-> FALSE],
   aux_sym_array_repeat1 |-> [visible |-> FALSE, named |-> FALSE],
   aux_sym_object_repeat1 |-> [visible |-> FALSE, named |-> FALSE],
   aux_sym_reference_repeat1 |-> [visible |-> FALSE, named |-> FALSE]]

(***************************************************************************)
(* Table access.  A large state indexes ts_parse_table by symbol; a small  *)
(* state is looked up group by group in ts_small_parse_table from the      *)
(* offset ts_small_parse_table_map gives; 0 is "no entry".                 *)
(***************************************************************************)
FirstGroup(groups, hit) ==
  IF hit = {} THEN 0
  ELSE groups[CHOOSE i \in hit : \A j \in hit : i <= j][1]

GroupsWith(groups, symbol) ==
  FirstGroup(groups, {i \in 1..Len(groups) : symbol \in groups[i][2]})

ts_small_parse_table_at(offset, symbol) ==
  GroupsWith(ts_small_parse_table[offset], symbol)

ts_lookup(state, symbol) ==
  IF state < LARGE_STATE_COUNT
  THEN IF symbol \in DOMAIN ts_parse_table[state]
       THEN ts_parse_table[state][symbol] ELSE 0
  ELSE ts_small_parse_table_at(ts_small_parse_table_map[SMALL_STATE(state)], symbol)

STATE_COUNT == 153

(***************************************************************************)
(* The symbols in the order of the enum of symbol identifiers, after        *)
(* ts_builtin_sym_end (0); the first TOKEN_COUNT are what the lexer returns. *)
(***************************************************************************)
TOKEN_COUNT == 40

ts_symbol_identifiers ==
  <<"ts_builtin_sym_end", "anon_sym_addon", "anon_sym_signer",
    "anon_sym_action", "anon_sym_output", "anon_sym_variable",
    "anon_sym_input", "anon_sym_EQ", "anon_sym_import", "anon_sym_LBRACE",
    "anon_sym_RBRACE", "anon_sym_DQUOTE", "aux_sym_string_token1",
    "anon_sym_SQUOTE", "aux_sym_string_token2",
    "anon_sym_DQUOTE_DQUOTE_DQUOTE", "aux_sym_string_token3",
    "aux_sym_number_token1", "aux_sym_number_token2",
    "aux_sym_number_token3", "anon_sym_true", "anon_sym_false", "sym_null",
    "anon_sym_LBRACK", "anon_sym_COMMA", "anon_sym_RBRACK",
    "anon_sym_COLON", "anon_sym_DOT", "anon_sym_LPAREN", "anon_sym_RPAREN",
    "anon_sym_STAR", "anon_sym_SLASH", "anon_sym_PLUS", "anon_sym_DASH",
    "sym_identifier", "anon_sym_POUND", "aux_sym_comment_token1",
    "anon_sym_SLASH_SLASH", "anon_sym_SLASH_STAR",
    "aux_sym_comment_token2", "sym_runbook", "sym__statement",
    "sym_addon_block", "sym_signer_block", "sym_action_block",
    "sym_output_block", "sym_variable_declaration",
    "sym_input_declaration", "sym_import_statement", "sym_block",
    "sym_attribute", "sym__expression", "sym_string", "sym_number",
    "sym_boolean", "sym_array", "sym_object", "sym_object_field",
    "sym_reference", "sym_index_access", "sym_function_call",
    "sym_binary_expression", "sym_comment", "aux_sym_runbook_repeat1",
    "aux_sym_block_repeat1", "aux_sym_array_repeat1",
    "aux_sym_object_repeat1", "aux_sym_reference_repeat1">>

Terminals == {ts_symbol_identifiers[i] : i \in 1..TOKEN_COUNT}

(* Variants of the action list. *)
(* variable_declaration is reduced with the production of addon_block. *)
ts_parse_actions_at_variable_production(index) ==
  IF index = 221 THEN <<REDUCE("sym_variable_declaration", 3, 2)>>
  ELSE ts_parse_actions[index]

(* attribute is reduced with the production of input_declaration. *)
ts_parse_actions_at_attribute_production(index) ==
  IF index = 268 THEN <<REDUCE("sym_attribute", 3, 5)>>
  ELSE ts_parse_actions[index]

ts_parse_actions_at(index) == ts_parse_actions[index]

(* Variants of the table, each one cell or one row away from it. *)
(* The states after `x + y` give `*` and `/` no precedence over `+` and `-`. *)
ts_table_entry_flat_precedence(state, symbol) ==
  IF state \in {43, 83} /\ symbol \in {"anon_sym_STAR", "anon_sym_SLASH"}
  THEN <<REDUCE("sym_binary_expression", 3, 0)>>
  ELSE ts_parse_actions_at(ts_lookup(state, symbol))

(* The states after `x + y` shift a further `+` or `-`: right-associative. *)
ts_table_entry_right_assoc(state, symbol) ==
  IF state \in {43, 83} /\ symbol \in {"anon_sym_PLUS", "anon_sym_DASH"}
  THEN <<SHIFT(IF state = 43 THEN 14 ELSE 10)>>
  ELSE ts_parse_actions_at(ts_lookup(state, symbol))

(* The states after an identifier of a reference shift `/` as they do `.`. *)
ts_table_entry_slash_joins(state, symbol) ==
  IF state \in {21, 24, 25, 47, 55, 56} /\ symbol = "anon_sym_SLASH"
  THEN ts_parse_actions_at(ts_lookup(state, "anon_sym_DOT"))
  ELSE ts_parse_actions_at(ts_lookup(state, symbol))

(* After `output` an identifier is shifted as the name, like a string. *)
ts_table_entry_identifier_name(state, symbol) ==
  IF state = 99 /\ symbol = "sym_identifier"
  THEN <<SHIFT(124)>>
  ELSE ts_parse_actions_at(ts_lookup(state, symbol))

(* Between an operand and the operator after it, `/*` has no action. *)
ts_table_entry_no_comment(state, symbol) ==
  IF state \in {47, 89} /\ symbol = "anon_sym_SLASH_STAR"
  THEN <<>>
  ELSE ts_parse_actions_at(ts_lookup(state, symbol))

(* Where a statement can start, an identifier is shifted like `output`. *)
ts_table_entry_bare_statement(state, symbol) ==
  IF state \in {1, 28} /\ symbol = "sym_identifier"
  THEN <<SHIFT(99)>>
  ELSE ts_parse_actions_at(ts_lookup(state, symbol))

(* Where a statement can start, an identifier reduces an empty comment, and
   the state entered on the comment is the same state. *)
ts_table_entry_empty_reduction(state, symbol) ==
  IF state = 1 /\ symbol = "sym_identifier"
  THEN <<REDUCE("sym_comment", 0, 0)>>
  ELSE ts_parse_actions_at(ts_lookup(state, symbol))

(* Where a value starts after `=`, `-` is shifted like a binary operator. *)
ts_table_entry_unary_minus(state, symbol) ==
  IF state \in {5, 6} /\ symbol = "anon_sym_DASH"
  THEN <<SHIFT(14)>>
  ELSE ts_parse_actions_at(ts_lookup(state, symbol))

(* After the comma of an object literal a further comma is shifted. *)
ts_table_entry_double_comma(state, symbol) ==
  IF state \in {69, 74} /\ symbol = "anon_sym_COMMA"
  THEN <<SHIFT(state)>>
  ELSE ts_parse_actions_at(ts_lookup(state, symbol))

(* After a dotted segment `(` is shifted as after a first identifier. *)
ts_table_entry_dotted_call(state, symbol) ==
  IF state \in {23, 27} /\ symbol = "anon_sym_LPAREN"
  THEN <<SHIFT(9)>>
  ELSE ts_parse_actions_at(ts_lookup(state, symbol))

(* The states after `x + y` list a shift beside the reduction for `*`. *)
ts_table_entry_conflict(state, symbol) ==
  IF state \in {43, 83} /\ symbol = "anon_sym_STAR"
  THEN <<REDUCE("sym_binary_expression", 3, 0)>>
         \o ts_parse_actions_at(ts_lookup(state, symbol))
  ELSE ts_parse_actions_at(ts_lookup(state, symbol))

(* The actions of (state, lookahead symbol), as the table lists them. *)
ts_table_entry(state, symbol) == ts_parse_actions_at(ts_lookup(state, symbol))

(* The action the driver takes: a SHIFT_REPEAT beside a REDUCE is skipped. *)
NoAction ==
  [type |-> "NONE", state |-> 0, repetition |-> FALSE,
   symbol |-> NO_ACCEPT, child_count |-> 0, production_id |-> 0]

FirstAction(actions) == IF actions = <<>> THEN NoAction ELSE actions[1]

ParseAction(state, symbol) ==
  FirstAction(SelectSeq(ts_table_entry(state, symbol), LAMBDA a : ~a.repetition))

(***************************************************************************)
(* For every parse state the first state with the same items.              *)
(***************************************************************************)
ts_primary_state_ids ==
     0 :> 0 @@ 1 :> 1 @@ 2 :> 2 @@ 3 :> 2 @@ 4 :> 4 @@ 5 :> 5 @@ 6 :> 4 @@ 7 :> 5
  @@ 8 :> 8 @@ 9 :> 8 @@ 10 :> 10 @@ 11 :> 11 @@ 12 :> 12 @@ 13 :> 13 @@ 14 :> 10 @@ 15 :> 15
  @@ 16 :> 16 @@ 17 :> 17 @@ 18 :> 13 @@ 19 :> 19 @@ 20 :> 12 @@ 21 :> 21 @@ 22 :> 22 @@ 23 :> 23
  @@ 24 :> 24 @@ 25 :> 25 @@ 26 :> 26 @@ 27 :> 27 @@ 28 :> 28 @@ 29 :> 29 @@ 30 :> 30 @@ 31 :> 31
  @@ 32 :> 32 @@ 33 :> 33 @@ 34 :> 34 @@ 35 :> 35 @@ 36 :> 36 @@ 37 :> 37 @@ 38 :> 38 @@ 39 :> 39
  @@ 40 :> 40 @@ 41 :> 41 @@ 42 :> 42 @@ 43 :> 43 @@ 44 :> 44 @@ 45 :> 45 @@ 46 :> 46 @@ 47 :> 21
  @@ 48 :> 48 @@ 49 :> 49 @@ 50 :> 50 @@ 51 :> 51 @@ 52 :> 52 @@ 53 :> 53 @@ 54 :> 54 @@ 55 :> 25
  @@ 56 :> 24 @@ 57 :> 57 @@ 58 :> 58 @@ 59 :> 59 @@ 60 :> 23 @@ 61 :> 22 @@ 62 :> 59 @@ 63 :> 63
  @@ 64 :> 64 @@ 65 :> 65 @@ 66 :> 65 @@ 67 :> 67 @@ 68 :> 27 @@ 69 :> 69 @@ 70 :> 70 @@ 71 :> 67
  @@ 72 :> 26 @@ 73 :> 70 @@ 74 :> 69 @@ 75 :> 35 @@ 76 :> 44 @@ 77 :> 77 @@ 78 :> 39 @@ 79 :> 79
  @@ 80 :> 80 @@ 81 :> 45 @@ 82 :> 38 @@ 83 :> 43 @@ 84 :> 41 @@ 85 :> 42 @@ 86 :> 40 @@ 87 :> 17
  @@ 88 :> 30 @@ 89 :> 34 @@ 90 :> 36 @@ 91 :> 31 @@ 92 :> 37 @@ 93 :> 32 @@ 94 :> 33 @@ 95 :> 95
  @@ 96 :> 95 @@ 97 :> 97 @@ 98 :> 98 @@ 99 :> 99 @@ 100 :> 100 @@ 101 :> 101 @@ 102 :> 102 @@ 103 :> 103
  @@ 104 :> 104 @@ 105 :> 105 @@ 106 :> 106 @@ 107 :> 107 @@ 108 :> 108 @@ 109 :> 109 @@ 110 :> 110 @@ 111 :> 111
  @@ 112 :> 110 @@ 113 :> 113 @@ 114 :> 114 @@ 115 :> 115 @@ 116 :> 114 @@ 117 :> 113 @@ 118 :> 111 @@ 119 :> 119
  @@ 120 :> 120 @@ 121 :> 121 @@ 122 :> 122 @@ 123 :> 123 @@ 124 :> 124 @@ 125 :> 125 @@ 126 :> 126 @@ 127 :> 119
  @@ 128 :> 128 @@ 129 :> 129 @@ 130 :> 129 @@ 131 :> 131 @@ 132 :> 132 @@ 133 :> 133 @@ 134 :> 134 @@ 135 :> 135
  @@ 136 :> 128 @@ 137 :> 137 @@ 138 :> 131 @@ 139 :> 139 @@ 140 :> 140 @@ 141 :> 141 @@ 142 :> 142 @@ 143 :> 143
  @@ 144 :> 134 @@ 145 :> 145 @@ 146 :> 146 @@ 147 :> 137 @@ 148 :> 141 @@ 149 :> 135 @@ 150 :> 132 @@ 151 :> 151
  @@ 152 :> 152

(* Variant of the primary states: the state after an identifier in an
   attribute value is its own primary state. *)
ts_primary_state_id_own(state) ==
  IF state = 47 THEN 47 ELSE ts_primary_state_ids[state]

ts_primary_state_id(state) == ts_primary_state_ids[state]

(* Variant of the lex modes: the states entered after the content of a
   double-quoted string keep the lex state of the content. *)
ts_lex_mode_content_again(state) ==
  IF state \in {141, 148} THEN 67 ELSE ts_lex_modes[state]

ts_lex_mode(state) == ts_lex_modes[state]

(***************************************************************************)
(* Syntax nodes.  A node keeps every child in source order, comments       *)
(* (extra) included.                                                       *)
(***************************************************************************)
NullNode ==
  [symbol |-> NO_ACCEPT, production_id |-> 0, children |-> <<>>,
   extra |-> FALSE, start |-> 0, end |-> 0]

NoToken == [symbol |-> NO_ACCEPT, start |-> 0, end |-> 0]

(* No second parse. *)
NoParse ==
  [input |-> "", doc |-> <<>>, position |-> 0, stack |-> <<>>,
   next_token |-> NoToken, status |-> "none", tree |-> NullNode]

Leaf(token) ==
  [symbol |-> token.symbol, production_id |-> 0, children |-> <<>>,
   extra |-> FALSE, start |-> token.start, end |-> token.end]

Subtrees(entries) == [i \in 1..Len(entries) |-> entries[i].subtree]

ts_stack_state(stk) == IF stk = <<>> THEN 1 ELSE stk[Len(stk)].state

(* The index of the lowest stack entry a pop of `count` non-extra entries
   removes, scanning down from entry i; Len(stk) + 1 when count is 0. *)
RECURSIVE PopStart(_, _, _)
PopStart(stk, i, count) ==
  IF count = 0 \/ i = 0 THEN i + 1
  ELSE PopStart(stk, i - 1, IF stk[i].subtree.extra THEN count ELSE count - 1)

(* The number of extra subtrees at the end of `trees`. *)
RECURSIVE TrailingExtras(_)
TrailingExtras(trees) ==
  IF trees = <<>> \/ ~trees[Len(trees)].extra THEN 0
  ELSE 1 + TrailingExtras(SubSeq(trees, 1, Len(trees) - 1))

(***************************************************************************)
(* A reduction: pop child_count non-extra subtrees (with the comments      *)
(* between and above them), make the parent from all but the trailing      *)
(* comments, push it in the goto state and push the trailing comments      *)
(* back.  A reduction at the end of a comment, whose goto state is the     *)
(* state below, marks the parent extra.                                    *)
(***************************************************************************)
ReduceStack(stk, symbol, child_count, production_id, end_of_extra, at) ==
  LET first == PopStart(stk, Len(stk), child_count)
      below == SubSeq(stk, 1, first - 1)
      popped == Subtrees(SubSeq(stk, first, Len(stk)))
      ntrail == TrailingExtras(popped)
      children == SubSeq(popped, 1, Len(popped) - ntrail)
      trailing == SubSeq(popped, Len(popped) - ntrail + 1, Len(popped))
      state == ts_stack_state(below)
      next_state == ts_lookup(state, symbol)
      parent == [symbol |-> symbol, production_id |-> production_id,
                 children |-> children,
                 extra |-> end_of_extra /\ next_state = state,
                 start |-> IF children = <<>> THEN at ELSE children[1].start,
                 end |-> IF children = <<>> THEN at ELSE children[Len(children)].end]
  IN  below \o <<[state |-> next_state, subtree |-> parent]>>
            \o [i \in 1..Len(trailing) |-> [state |-> next_state, subtree |-> trailing[i]]]

(* The root on acceptance: the topmost non-extra subtree, with the
   comments around it on the stack spliced in as its children. *)
RECURSIVE LastNonExtra(_, _)
LastNonExtra(trees, i) ==
  IF i = 0 \/ ~trees[i].extra THEN i ELSE LastNonExtra(trees, i - 1)

AcceptRoot(stk) ==
  LET trees == Subtrees(stk)
      j == LastNonExtra(trees, Len(trees))
      root == trees[j]
      kids == SubSeq(trees, 1, j - 1) \o root.children \o SubSeq(trees, j + 1, Len(trees))
  IN  IF kids = <<>> THEN root
      ELSE [root EXCEPT !.children = kids,
                        !.start = kids[1].start,
                        !.end = kids[Len(kids)].end]

(***************************************************************************)
(* Reading the syntax tree.  Hidden nodes (_statement, _expression, the    *)
(* repeat helpers) do not appear in the tree a caller walks: their visible *)
(* children stand in their place.  A field of a node is given by the       *)
(* field map of its production, whose child_index counts the node's        *)
(* children without the comments.                                          *)
(***************************************************************************)
IsVisible(node) == ts_symbol_metadata[node.symbol].visible

IsNamed(node) == ts_symbol_metadata[node.symbol].named

RECURSIVE VisibleOf(_, _)
VisibleOf(children, i) ==
  IF i > Len(children) THEN <<>>
  ELSE (IF IsVisible(children[i]) THEN <<children[i]>>
        ELSE VisibleOf(children[i].children, 1))
       \o VisibleOf(children, i + 1)

(* Every visible child, comments included. *)
ts_node_children(node) == VisibleOf(node.children, 1)

(* The children without the comments. *)
Children(node) == SelectSeq(ts_node_children(node), LAMBDA c : ~c.extra)

Comments(node) == SelectSeq(ts_node_children(node), LAMBDA c : c.extra)

StructuralChildren(node) == SelectSeq(node.children, LAMBDA c : ~c.extra)

(* Variants of the field map. *)
(* In productions 2 and 3 `config` names child 1 instead of child 2. *)
ts_field_map_config_index(production_id) ==
  LET slice == ts_field_map_slices[production_id]
      entries == SubSeq(ts_field_map_entries, slice.index + 1, slice.index + slice.length)
  IN  [i \in 1..Len(entries) |->
         IF production_id \in {2, 3} /\ entries[i].field_id = "field_config"
         THEN [entries[i] EXCEPT !.child_index = 1] ELSE entries[i]]

(* In production 1 `path` names child 0, the keyword. *)
ts_field_map_path_index(production_id) ==
  LET slice == ts_field_map_slices[production_id]
      entries == SubSeq(ts_field_map_entries, slice.index + 1, slice.index + slice.length)
  IN  [i \in 1..Len(entries) |->
         IF production_id = 1 THEN [entries[i] EXCEPT !.child_index = 0]
         ELSE entries[i]]

(* In production 9 `arguments` names child 2 only. *)
ts_field_map_first_argument(production_id) ==
  LET slice == ts_field_map_slices[production_id]
      entries == SubSeq(ts_field_map_entries, slice.index + 1, slice.index + slice.length)
  IN  IF production_id = 9
      THEN SelectSeq(entries, LAMBDA e : e.child_index # 3)
      ELSE entries

ts_field_map(production_id) ==
  LET slice == ts_field_map_slices[production_id]
  IN  SubSeq(ts_field_map_entries, slice.index + 1, slice.index + slice.length)

RECURSIVE FieldNodes(_, _, _, _)
FieldNodes(kids, entries, field, i) ==
  IF i > Len(entries) THEN <<>>
  ELSE (IF entries[i].field_id = field /\ entries[i].child_index < Len(kids)
        THEN SelectSeq(VisibleOf(<<kids[entries[i].child_index + 1]>>, 1),
                       LAMBDA c : ~c.extra)
        ELSE <<>>)
       \o FieldNodes(kids, entries, field, i + 1)

(* The children of `node` tagged with `field`, in field-map order. *)
ts_node_children_by_field(node, field) ==
  FieldNodes(StructuralChildren(node), ts_field_map(node.production_id), field, 1)

ts_node_child_by_field(node, field) ==
  LET found == ts_node_children_by_field(node, field)
  IN  IF found = <<>> THEN NullNode ELSE found[1]

(* The fields naming the child c of node. *)
FieldsOf(node, c) ==
  {e.field_id : e \in {ts_field_map(node.production_id)[i] :
                         i \in 1..Len(ts_field_map(node.production_id))}}
    \cap {f \in {"field_arguments", "field_config", "field_key", "field_name",
                 "field_network", "field_path", "field_type", "field_value"} :
            \E k \in 1..Len(ts_node_children_by_field(node, f)) :
               ts_node_children_by_field(node, f)[k] = c}

RECURSIVE Nodes(_)
Nodes(node) ==
  {node} \cup UNION {Nodes(node.children[i]) : i \in 1..Len(node.children)}

Text(node) == SubSeq(input, node.start + 1, node.end)

(* The nodes built so far: on the stack while parsing, the tree after. *)
Reduced ==
  Nodes(tree) \cup UNION {Nodes(stack[i].subtree) : i \in 1..Len(stack)}

(* The expression written with one pair of brackets per binary_expression. *)
RECURSIVE Bracketed(_)
Bracketed(node) ==
  IF node.symbol = "sym_binary_expression" /\ Len(Children(node)) = 3
  THEN "(" \o Bracketed(Children(node)[1]) \o " " \o Text(Children(node)[2])
           \o " " \o Bracketed(Children(node)[3]) \o ")"
  ELSE Text(node)

(* The statements of the accepted runbook, and the value of the first one:
   of an input declaration, or of the first attribute of a block. *)
Statements == Children(tree)

FirstAttribute(statement) ==
  LET block == ts_node_child_by_field(statement, "field_config")
      inside == Children(block)
  IN  IF Len(inside) >= 3 THEN inside[2] ELSE NullNode

ValueNode ==
  IF Statements = <<>> THEN NullNode
  ELSE IF Statements[1].symbol = "sym_input_declaration"
       THEN ts_node_child_by_field(Statements[1], "field_value")
       ELSE ts_node_child_by_field(FirstAttribute(Statements[1]), "field_value")

(***************************************************************************)
(* The input texts.  A document is described by the pieces it is written   *)
(* from (doc) and rendered to the text the parser reads (input).           *)
(*   expr     a chain of operands and binary operators, as the value of an *)
(*            attribute inside a block or of an input declaration, or with *)
(*            comments around the operators;                               *)
(*   ref      identifiers joined by `.` or `/`, in the same two places;    *)
(*   stmt     one statement: keyword, name, type (signer, action), body;   *)
(*   comment  a comment opener, its content, a line break, a statement;    *)
(*   string   a string literal as the value of an input declaration: the   *)
(*            delimiter, the content, the delimiter again;                 *)
(*   value    a text in the place of an expression, in the same two        *)
(*            places as expr;                                              *)
(*   call     a function call, written from its arguments, in the same two *)
(*            places;                                                      *)
(*   open     a block comment that is not closed: `/*` and its content;    *)
(*   text     a whole text: statements one after the other, or something   *)
(*            else where a statement starts.                               *)
(***************************************************************************)
MaxTerms == 3

MaxSegments == 4

MaxCommentLen == 2

Contexts == {"attribute", "input"}

(* "commented": an input-declaration value with a comment before and after
   each operator. *)
ExprContexts == Contexts \cup {"commented"}

Operators == {"+", "-", "*", "/"}

AdditiveOps == {"+", "-"}

MultiplicativeOps == {"*", "/"}

(* Operand texts by kind; the operand at position i of a chain is of kind
   k + (i - 1) * stride, so that chains of one kind and of mixed kinds occur. *)
OperandTexts ==
  << <<"1", "0x2A", "3.5", "007">>,
     <<"a", "b", "c", "d">>,
     <<"p.q", "r.s.t", "u.v", "w.x">>,
     <<"\"s\"", "'t'", "true", "null">>,
     <<"f(1)", "[2, 3]", "g.h[0]", "{k: 1}">> >>

Operand(kind, stride, i) ==
  OperandTexts[((kind - 1 + (i - 1) * stride) % Len(OperandTexts)) + 1][i]

ExprDocs ==
  UNION {
    {[family |-> "expr", ctx |-> ctx,
      a |-> [i \in 1..n |-> Operand(kind, stride, i)],
      b |-> ops] :
        ctx \in ExprContexts, kind \in 1..Len(OperandTexts), stride \in {0, 1},
        ops \in [1..(n - 1) -> Operators]} : n \in 1..MaxTerms}

SegmentNames == "abcdefgh"

RefDocs ==
  UNION {
    {[family |-> "ref", ctx |-> ctx,
      a |-> [i \in 1..n |-> SubSeq(SegmentNames, i, i)],
      b |-> seps] :
        ctx \in Contexts, seps \in [1..(n - 1) -> {".", "/"}]} : n \in 1..MaxSegments}

BlockKeywords == {"addon", "signer", "action", "output", "variable"}

TypedKeywords == {"signer", "action"}

(* What is written at a name or type position. *)
NameForms == {"myout", "\"x\"", "'x'", "\"\"\"x\"\"\""}

StringForms == {"\"x\"", "'x'", "\"\"\"x\"\"\""}

(* What else is written after `import`: no string, or a comment first. *)
ImportJunk == {"myout", "\"./child.txt\" \"y\"", "1", "{ }", "= 1", "input", "[", ""}

ImportPaths == StringForms \cup {"\"./child.txt\""}

CommentedPaths == {"# c\n\"x\"", "/* c */ 'x'"}

Blocks == {"{ }", "{ value = 1 }", "{ a = 1\n  b = x.y }"}

StmtDocs ==
       {[family |-> "stmt", ctx |-> kw, a |-> <<kw, name, "", body>>, b |-> <<>>] :
          kw \in BlockKeywords \ TypedKeywords, name \in NameForms, body \in Blocks}
  \cup {[family |-> "stmt", ctx |-> kw, a |-> <<kw, name, type, body>>, b |-> <<>>] :
          kw \in TypedKeywords, name \in NameForms, type \in NameForms, body \in Blocks}
  \cup {[family |-> "stmt", ctx |-> "input", a |-> <<"input", name, "", body>>, b |-> <<>>] :
          name \in NameForms, body \in {"= 1", "= a.b"}}
  \cup {[family |-> "stmt", ctx |-> "import", a |-> <<"import", name, "", "">>, b |-> <<>>] :
          name \in ImportPaths \cup ImportJunk \cup CommentedPaths}

CommentOpeners == {"#", "//", "/*"}

CommentAlphabet == {"x", " ", "#", "/", "*"}

RECURSIVE Words(_, _)
Words(alphabet, n) ==
  IF n = 0 THEN {""}
  ELSE LET shorter == Words(alphabet, n - 1)
       IN  shorter \cup {w \o c : w \in shorter, c \in alphabet}

FollowingStatement == "input \"n\" = 1"

CommentDocs ==
       {[family |-> "comment", ctx |-> opener,
         a |-> <<opener, content, FollowingStatement>>, b |-> <<>>] :
          opener \in CommentOpeners, content \in Words(CommentAlphabet, MaxCommentLen)}
  \cup {[family |-> "scenario5", ctx |-> "",
         a |-> <<"# line\n// line2\n/* block */\n", FollowingStatement>>, b |-> <<>>],
        [family |-> "nested", ctx |-> "",
         a |-> <<"/* a /* b */ c */\n", FollowingStatement>>, b |-> <<>>],
        [family |-> "empty", ctx |-> "", a |-> <<"", "">>, b |-> <<>>]}

MaxContent == 2

Delimiters == {"\"", "'", "\"\"\""}

(* Content bytes: a letter, a backslash, a line break, a blank, the
   characters that open comments, and the quote characters. *)
ContentAlphabet == {"a", "\\", "\n", " ", "#", "/", "*", "\"", "'"}

Contains(text, part) ==
  \E i \in 1..(Len(text) - Len(part) + 1) : SubSeq(text, i, i + Len(part) - 1) = part

(* The contents a delimiter can enclose: in the content followed by the
   delimiter, the delimiter occurs at the end and nowhere before. *)
Contents(delimiter) ==
  {c \in Words(ContentAlphabet, MaxContent) :
     ~Contains(c \o SubSeq(delimiter, 1, Len(delimiter) - 1), delimiter)}

ExampleContents == {"hello", "one\ntwo", "a\\"}

StringDocs ==
  UNION {
    {[family |-> "string", ctx |-> delimiter, a |-> <<content>>, b |-> <<>>] :
       content \in Contents(delimiter) \cup ExampleContents} : delimiter \in Delimiters}

(* Texts that open with a sign or a parenthesis, or have one after an
   operator, beside calls and a subtraction. *)
SignTexts ==
  {"-5", "(1+2)", "- 5", "( 1 )", "1 + -2", "1 * (2)", "[-1]", "f(-1)", "f((1))",
   "-a", "(a)", "f(1)", "f (1)", "f /* c */ (1)", "1 - 2", "a - b"}

MaxArrayTokens == 3

(* Array literals: up to MaxArrayTokens digits and commas between the
   brackets. *)
ArrayBodies == Words({"1", ","}, MaxArrayTokens)

ArrayTexts == {"[" \o body \o "]" : body \in ArrayBodies}

(* Index accesses on references, and on other operands. *)
IndexTexts == {"a[0]", "a.b[0]", "a.b[0].c", "a.b[0][1]", "a.b[0] + 1", "f(1)[0]", "1[0]"}

(* Calls whose callee is not one identifier, and argument lists with a
   comma out of place; with each the rest of the text from the token that
   is out of place. *)
BadCalls ==
  {<<"a.b(1)", "(1)">>, <<"a[0](1)", "(1)">>, <<"f(1)(2)", "(2)">>,
   <<"1(2)", "(2)">>, <<"f(,)", ",)">>, <<"f(,1)", ",1)">>, <<"f(1,)", ")">>,
   <<"f(1,,2)", ",2)">>, <<"f(1, 2,)", ")">>}

(* Object literals that stop at a token with no action: a second comma in a
   row and fields without `:`. *)
BadObjects ==
  {<<"{k: 1,, j: 2}", ", j: 2}">>, <<"{k: 1,,}", ",}">>, <<"{,,}", ",}">>,
   <<"{k 1}", "1}">>, <<"{k = 1}", "= 1}">>, <<"{\"s\" = 1}", "= 1}">>,
   <<"{k, j}", ", j}">>, <<"{k}", "}">>}

(* Object literals of more fields, and a string key followed by a value
   without `:`. *)
LongObjects == {"{k: 1, j: 2,}", "{k: 1, j: 2, i: 3}", "{k: 1, j: 2, i: 3,}"}

KeyThenValue == "{\"s\" 1}"

CallTexts == {"f(1)", "f (1)", "f(a.b, g(1))", "f(a[0])", "a.f"}

ValueTexts ==
  SignTexts \cup ArrayTexts \cup IndexTexts \cup CallTexts
    \cup {call[1] : call \in BadCalls} \cup {object[1] : object \in BadObjects}
    \cup LongObjects \cup {KeyThenValue}

ValueDocs ==
  {[family |-> "value", ctx |-> ctx, a |-> <<text>>, b |-> <<>>] :
     ctx \in Contexts, text \in ValueTexts}

MaxArguments == 3

ArgumentTexts == <<"1", "a", "g(2)", "\"s\"", "[3, 4]", "b.c", "h()", "1 + 2">>

(* The calls of 0 to MaxArguments arguments, taken from ArgumentTexts in
   turn from the k-th on. *)
CallDocs ==
  {[family |-> "call", ctx |-> ctx,
    a |-> [i \in 1..n |-> ArgumentTexts[((k + i - 2) % Len(ArgumentTexts)) + 1]],
    b |-> <<>>] :
      ctx \in Contexts, n \in 0..MaxArguments, k \in 1..Len(ArgumentTexts)}

MaxObjectTokens == 3

ObjectFieldTexts == {"k: 1", "\"s\": a.b", "'t': {j: [2]}"}

(* Object literals of up to MaxObjectTokens fields and commas in any order. *)
RECURSIVE Lists(_, _)
Lists(items, n) ==
  IF n = 0 THEN {<<>>}
  ELSE LET shorter == Lists(items, n - 1)
       IN  shorter \cup {Append(l, item) : l \in shorter, item \in items}

ObjectDocs ==
  {[family |-> "object", ctx |-> ctx, a |-> items, b |-> <<>>] :
     ctx \in Contexts, items \in Lists(ObjectFieldTexts \cup {","}, MaxObjectTokens)}

(* The contents of a block comment left open: not empty, without `*/`. *)
OpenComments ==
  {[family |-> "open", ctx |-> "/*", a |-> <<content>>, b |-> <<>>] :
     content \in {c \in Words(CommentAlphabet, MaxCommentLen) \cup {" abc", " a * b"} :
                    c # "" /\ ~Contains(c, "*/")}}

MaxStatements == 3

StatementTexts ==
  <<"input \"n\" = 1", "output \"o\" { v = a }", "import \"p\"",
    "variable \"v\" { }", "addon \"e\" { }", "signer \"s\" \"t\" { }",
    "action \"a\" \"t\" { }">>

(* What is written where a statement starts, beside a statement. *)
StrayTexts == {"", " ", "\n", "foo", "1", "}", "= 1", "\"s\"", "inputs", "# c\n", "/* c */"}

(* Up to MaxStatements statements, taken from StatementTexts in turn from
   the k-th on, and a last piece. *)
TextDocs ==
  {[family |-> "text", ctx |-> last,
    a |-> [i \in 1..n |-> StatementTexts[((k + i - 2) % Len(StatementTexts)) + 1]],
    b |-> <<>>] :
      last \in StrayTexts, n \in 0..MaxStatements, k \in 1..Len(StatementTexts)}

Docs ==
  ExprDocs \cup RefDocs \cup StmtDocs \cup CommentDocs \cup StringDocs \cup ValueDocs
    \cup CallDocs \cup TextDocs \cup OpenComments \cup ObjectDocs

RECURSIVE Chain(_, _, _, _)
Chain(items, seps, glue, i) ==
  IF i = Len(items) THEN items[i]
  ELSE items[i] \o glue \o seps[i] \o glue \o Chain(items, seps, glue, i + 1)

RECURSIVE Listed(_, _, _)
Listed(items, glue, i) ==
  IF i > Len(items) THEN ""
  ELSE items[i] \o (IF i < Len(items) THEN glue ELSE "") \o Listed(items, glue, i + 1)

InContext(ctx, value) ==
  IF ctx = "attribute" THEN "output \"o\" { v = " \o value \o " }"
  ELSE "input \"n\" = " \o value

Render(d) ==
  CASE d.family = "expr" ->
         InContext(d.ctx, Chain(d.a, d.b,
                                IF d.ctx = "commented" THEN " /* c */ " ELSE " ", 1))
    [] d.family = "ref" -> InContext(d.ctx, Chain(d.a, d.b, "", 1))
    [] d.family = "stmt" ->
         d.a[1] \o " " \o d.a[2] \o (IF d.a[3] = "" THEN "" ELSE " " \o d.a[3])
                \o (IF d.a[4] = "" THEN "" ELSE " " \o d.a[4])
    [] d.family = "comment" ->
         d.a[1] \o d.a[2] \o (IF d.a[1] = "/*" THEN "*/" ELSE "") \o "\n" \o d.a[3]
    [] d.family = "string" -> InContext("input", d.ctx \o d.a[1] \o d.ctx)
    [] d.family = "value" -> InContext(d.ctx, d.a[1])
    [] d.family = "object" -> InContext(d.ctx, "{" \o Listed(d.a, " ", 1) \o "}")
    [] d.family = "open" -> d.ctx \o d.a[1]
    [] d.family = "text" -> Listed(d.a \o <<d.ctx>>, "\n", 1)
    [] d.family = "call" -> InContext(d.ctx, "f(" \o Listed(d.a, ", ", 1) \o ")")
    [] OTHER -> d.a[1] \o d.a[2]

(***************************************************************************)
(* The parser as a state machine.  `input` is the text, `position` the     *)
(* lexer's byte offset, `stack` the parse stack above the start state 1,   *)
(* `next_token` the token read and not yet shifted, `tree` the root once   *)
(* the input is accepted.  `status` is "parsing" until the parser accepts  *)
(* or meets a token with no parse action ("syntax_error") or a position    *)
(* where ts_lex returns false ("lex_error"); what the runtime does to      *)
(* recover from there is not part of the tables and is not modelled.       *)
(* `other` is a second parse, of another text, waiting for its turn; there *)
(* is none (NoParse) when one text is parsed.                              *)
(***************************************************************************)
Init ==
  /\ doc \in Docs
  /\ input = Render(doc)
  /\ position = 0
  /\ stack = <<>>
  /\ next_token = NoToken
  /\ status = "parsing"
  /\ tree = NullNode
  /\ other = NoParse

(* Read the next token in the lex state of the current parse state. *)
TakeToken(r) ==
  /\ r.found
  /\ next_token' = [symbol |-> r.symbol, start |-> r.start, end |-> r.end]
  /\ position' = r.end

LexToken ==
  /\ status = "parsing"
  /\ next_token = NoToken
  /\ ts_lex_mode(ts_stack_state(stack)) # -1
  /\ TakeToken(Lex(input, ts_lex_mode(ts_stack_state(stack)), position))
  /\ UNCHANGED <<other, input, doc, stack, status, tree>>

(* ts_lex returns false: no token starts here. *)
LexError ==
  /\ status = "parsing"
  /\ next_token = NoToken
  /\ ts_lex_mode(ts_stack_state(stack)) # -1
  /\ ~Lex(input, ts_lex_mode(ts_stack_state(stack)), position).found
  /\ status' = "lex_error"
  /\ UNCHANGED <<other, input, doc, position, stack, next_token, tree>>

ShiftTo(action) ==
  /\ action.type = "SHIFT"
  /\ stack' = Append(stack, [state |-> action.state, subtree |-> Leaf(next_token)])

Shift ==
  /\ status = "parsing"
  /\ next_token # NoToken
  /\ ShiftTo(ParseAction(ts_stack_state(stack), next_token.symbol))
  /\ next_token' = NoToken
  /\ UNCHANGED <<other, input, doc, position, status, tree>>

ReduceBy(action, end_of_extra, at) ==
  /\ action.type = "REDUCE"
  /\ stack' = ReduceStack(stack, action.symbol, action.child_count,
                          action.production_id, end_of_extra, at)

Reduce ==
  /\ status = "parsing"
  /\ next_token # NoToken
  /\ ReduceBy(ParseAction(ts_stack_state(stack), next_token.symbol),
              FALSE, next_token.start)
  /\ UNCHANGED <<other, input, doc, position, next_token, status, tree>>

(* In a state with no lex mode (the end of a comment) the reduction listed
   under ts_builtin_sym_end is taken without reading a token. *)
ReduceExtra ==
  /\ status = "parsing"
  /\ next_token = NoToken
  /\ ts_lex_mode(ts_stack_state(stack)) = -1
  /\ ReduceBy(ParseAction(ts_stack_state(stack), "ts_builtin_sym_end"),
              TRUE, position)
  /\ UNCHANGED <<other, input, doc, position, next_token, status, tree>>

Accept ==
  /\ status = "parsing"
  /\ next_token # NoToken
  /\ ParseAction(ts_stack_state(stack), next_token.symbol).type = "ACCEPT"
  /\ status' = "accepted"
  /\ tree' = AcceptRoot(stack)
  /\ UNCHANGED <<other, input, doc, position, stack, next_token>>

(* The next_token has no action in the current state (or only RECOVER). *)
SyntaxError ==
  /\ status = "parsing"
  /\ next_token # NoToken
  /\ ParseAction(ts_stack_state(stack), next_token.symbol).type \in {"NONE", "RECOVER"}
  /\ status' = "syntax_error"
  /\ UNCHANGED <<other, input, doc, position, stack, next_token, tree>>

Next ==
  \/ LexToken
  \/ LexError
  \/ Shift
  \/ Reduce
  \/ ReduceExtra
  \/ Accept
  \/ SyntaxError

Spec == Init /\ [][Next]_vars
(***************************************************************************)
(* The lexer on its own.  ts_lex is a function of the lex state and the    *)
(* text from a position; the parser selects the lex state through          *)
(* ts_lex_modes.  Here a text is lexed from its start in the lex state of  *)
(* one parse state, which stays at the bottom of `stack`; every token      *)
(* ts_lex returns is appended to `stack` as a leaf and the next call       *)
(* starts where it ended.  The calls stop at the end token ("end"), where  *)
(* ts_lex returns false ("lex_error"), or at a token that ends where the   *)
(* call started ("stalled").                                               *)
(***************************************************************************)
MaxSuffix == 2

MaxDigits == 3

MaxTail == 2

Keywords ==
  {"addon", "signer", "action", "output", "variable", "input", "import",
   "true", "false", "null"}

(* A keyword, a keyword short of its last letter, or another start of a
   word; then up to MaxSuffix word characters. *)
WordHeads ==
  Keywords \cup {SubSeq(k, 1, Len(k) - 1) : k \in Keywords} \cup {"x", "_a", "Ab"}

WordChars == {"x", "s", "_", "0"}

WordTexts == {h \o s : h \in WordHeads, s \in Words(WordChars, MaxSuffix)}

Digits == {"0", "7"}

HexDigits == {"0", "A", "f"}

DecimalRuns == Words(Digits, MaxDigits) \ {""}

HexRuns == Words(HexDigits, MaxDigits) \ {""}

HexTexts == {"0x" \o h : h \in HexRuns}

FractionTexts == {d \o "." \o f : d \in DecimalRuns, f \in DecimalRuns}

(* Texts that look like numbers and are not of the three forms. *)
OddNumberTexts ==
  {"0x", "1.", ".5", "-1", "+1", "1e5", "1E5", "1.5e3", "0xg", "0X1F",
   "1.5.2", "-0x1", "-1.5", "7x1"}

(* A hex prefix with no hex digit after it, and digits with a `.` that no
   digit follows. *)
IncompleteHexTexts == {"0x" \o t : t \in {"", "g", ".", "x"}}

IncompleteFractionTexts ==
  {d \o "." \o t : d \in {"0", "1", "07"}, t \in {"", "x", "."}}

IncompleteNumberTexts == IncompleteHexTexts \cup IncompleteFractionTexts

NumberTexts ==
  DecimalRuns \cup HexTexts \cup FractionTexts \cup OddNumberTexts
    \cup IncompleteNumberTexts

(* What follows a number in the text. *)
NumberTails == {"", " +"}

SlashTexts ==
  {p \o "/" \o t : p \in {"", " "}, t \in Words({"/", "*", "a", " "}, MaxTail)}

(* Bytes that start no token of the language, alone and next to a word;
   the empty text, a line break and blanks. *)
StrayBytes == {"@", "$", "!", "?", "%", "&", ";", "~"}

ByteTexts ==
  {"", "\nx", "#\nx", " ", " x"} \cup StrayBytes \cup {"a" \o c : c \in StrayBytes}
    \cup {c \o "a" : c \in StrayBytes}

(* A text to lex: a |-> the word, number or bytes, b |-> what follows it. *)
LexDocs ==
  {[family |-> "lex", ctx |-> "word", a |-> <<t>>, b |-> <<"">>] : t \in WordTexts}
    \cup {[family |-> "lex", ctx |-> "number", a |-> <<t>>, b |-> <<u>>] :
            t \in NumberTexts, u \in NumberTails}
    \cup {[family |-> "lex", ctx |-> "slash", a |-> <<t>>, b |-> <<"">>] : t \in SlashTexts}
    \cup {[family |-> "lex", ctx |-> "byte", a |-> <<t>>, b |-> <<"">>] : t \in ByteTexts}

(* The lex states the parser can select, and for each the first parse state
   that selects it. *)
SelectableLexStates == {ts_lex_mode(s) : s \in DOMAIN ts_lex_modes} \ {-1}

LexParseStates ==
  {CHOOSE s \in DOMAIN ts_lex_modes :
     /\ ts_lex_mode(s) = l
     /\ \A t \in DOMAIN ts_lex_modes : ts_lex_mode(t) = l => s <= t :
       l \in SelectableLexStates}

LexInit ==
  /\ doc \in LexDocs
  /\ input = doc.a[1] \o doc.b[1]
  /\ position = 0
  /\ \E s \in LexParseStates : stack = <<[state |-> s, subtree |-> NullNode]>>
  /\ next_token = NoToken
  /\ status = "lexing"
  /\ tree = NullNode
  /\ other = NoParse

KeepToken(r) ==
  /\ next_token' = [symbol |-> r.symbol, start |-> r.start, end |-> r.end]
  /\ position' = r.end

(* ts_lex returns a token that ends past the position of the call. *)
TokenReturned(r) ==
  /\ r.found
  /\ r.symbol # "ts_builtin_sym_end"
  /\ r.end > position
  /\ KeepToken(r)
  /\ stack' = Append(stack, [state |-> ts_stack_state(stack),
                             subtree |-> Leaf([symbol |-> r.symbol,
                                               start |-> r.start, end |-> r.end])])
  /\ UNCHANGED status

LexCallToken ==
  /\ status = "lexing"
  /\ TokenReturned(Lex(input, ts_lex_mode(ts_stack_state(stack)), position))
  /\ UNCHANGED <<other, input, doc, tree>>

(* ts_lex returns a token that ends at the position of the call. *)
TokenStalled(r) ==
  /\ r.found
  /\ r.symbol # "ts_builtin_sym_end"
  /\ r.end = position
  /\ KeepToken(r)
  /\ status' = "stalled"

LexCallStall ==
  /\ status = "lexing"
  /\ TokenStalled(Lex(input, ts_lex_mode(ts_stack_state(stack)), position))
  /\ UNCHANGED <<other, input, doc, stack, tree>>

EndReturned(r) ==
  /\ r.found
  /\ r.symbol = "ts_builtin_sym_end"
  /\ KeepToken(r)
  /\ status' = "end"

LexCallEnd ==
  /\ status = "lexing"
  /\ EndReturned(Lex(input, ts_lex_mode(ts_stack_state(stack)), position))
  /\ UNCHANGED <<other, input, doc, stack, tree>>

(* ts_lex returns false. *)
LexCallFail ==
  /\ status = "lexing"
  /\ ~Lex(input, ts_lex_mode(ts_stack_state(stack)), position).found
  /\ status' = "lex_error"
  /\ UNCHANGED <<other, input, doc, position, stack, next_token, tree>>

LexNext ==
  \/ LexCallToken
  \/ LexCallStall
  \/ LexCallEnd
  \/ LexCallFail

LexSpec == LexInit /\ [][LexNext]_vars

(* What the calls returned so far. *)
LexState == ts_lex_mode(stack[1].state)

Tokens == [i \in 1..(Len(stack) - 1) |-> stack[i + 1].subtree]

TokenText(token) == SubSeq(input, token.start + 1, token.end)

Lexing == doc.family = "lex"

(***************************************************************************)
(* Two parses side by side.  tree_sitter_txtx returns the one constant     *)
(* language (tables and ts_lex); each parse has its own text, lexer        *)
(* position, stack and lookahead.  One parse takes steps while the other   *)
(* waits in `other`; Switch hands the turn over, at any point and as often *)
(* as the scheduler likes.                                                 *)
(***************************************************************************)
ParTexts ==
  {"", "input \"n\" = 1 + 2 * 3", "# c\nvariable \"v\" { a = b.c }",
   "output o { }", "input \"n\" = @", "import \"p\" /* c */"}

ParDocs == {[family |-> "par", ctx |-> "", a |-> <<t, "">>, b |-> <<>>] : t \in ParTexts}

Waiting(d) ==
  [input |-> Render(d), doc |-> d, position |-> 0, stack |-> <<>>,
   next_token |-> NoToken, status |-> "parsing", tree |-> NullNode]

ParInit ==
  /\ doc \in ParDocs
  /\ input = Render(doc)
  /\ position = 0
  /\ stack = <<>>
  /\ next_token = NoToken
  /\ status = "parsing"
  /\ tree = NullNode
  /\ \E d \in ParDocs \ {doc} : other = Waiting(d)

(* Variant: the two parses share the lexer position. *)
Switch_shared_position ==
  /\ other.status # "none"
  /\ other' = [input |-> input, doc |-> doc, position |-> position, stack |-> stack,
               next_token |-> next_token, status |-> status, tree |-> tree]
  /\ input' = other.input
  /\ doc' = other.doc
  /\ position' = position
  /\ stack' = other.stack
  /\ next_token' = other.next_token
  /\ status' = other.status
  /\ tree' = other.tree

Switch ==
  /\ other.status # "none"
  /\ other' = [input |-> input, doc |-> doc, position |-> position, stack |-> stack,
               next_token |-> next_token, status |-> status, tree |-> tree]
  /\ input' = other.input
  /\ doc' = other.doc
  /\ position' = other.position
  /\ stack' = other.stack
  /\ next_token' = other.next_token
  /\ status' = other.status
  /\ tree' = other.tree

ParNext ==
  \/ LexToken
  \/ LexError
  \/ Shift
  \/ Reduce
  \/ ReduceExtra
  \/ Accept
  \/ SyntaxError
  \/ Switch

ParSpec == ParInit /\ [][ParNext]_vars

(***************************************************************************)
(* A parse run alone, from the start of the text to its outcome: the steps *)
(* of the driver one after the other.                                      *)
(***************************************************************************)
Outcome(s, pos, stk, tok, root) ==
  [status |-> s, position |-> pos, stack |-> stk, next_token |-> tok, tree |-> root]

RECURSIVE Run(_, _, _, _)
RunLexed(text, pos, stk, r) ==
  IF r.found
  THEN Run(text, r.end, stk, [symbol |-> r.symbol, start |-> r.start, end |-> r.end])
  ELSE Outcome("lex_error", pos, stk, NoToken, NullNode)

RunExtra(text, pos, stk, action) ==
  IF action.type = "REDUCE"
  THEN Run(text, pos,
           ReduceStack(stk, action.symbol, action.child_count, action.production_id,
                       TRUE, pos),
           NoToken)
  ELSE Outcome("parsing", pos, stk, NoToken, NullNode)

RunAction(text, pos, stk, tok, action) ==
  CASE action.type = "SHIFT" ->
         Run(text, pos, Append(stk, [state |-> action.state, subtree |-> Leaf(tok)]),
             NoToken)
    [] action.type = "REDUCE" ->
         Run(text, pos,
             ReduceStack(stk, action.symbol, action.child_count, action.production_id,
                         FALSE, tok.start),
             tok)
    [] action.type = "ACCEPT" -> Outcome("accepted", pos, stk, tok, AcceptRoot(stk))
    [] OTHER -> Outcome("syntax_error", pos, stk, tok, NullNode)

Run(text, pos, stk, tok) ==
  IF tok # NoToken
  THEN RunAction(text, pos, stk, tok, ParseAction(ts_stack_state(stk), tok.symbol))
  ELSE IF ts_lex_mode(ts_stack_state(stk)) = -1
       THEN RunExtra(text, pos, stk, ParseAction(ts_stack_state(stk), "ts_builtin_sym_end"))
       ELSE RunLexed(text, pos, stk, Lex(text, ts_lex_mode(ts_stack_state(stk)), pos))

ParseAlone(text) == Run(text, 0, <<>>, NoToken)

(***************************************************************************)
(* Properties.                                                             *)
(***************************************************************************)
Failed == status \in {"syntax_error", "lex_error"}

OperatorTokens ==
  {"anon_sym_PLUS", "anon_sym_DASH", "anon_sym_STAR", "anon_sym_SLASH"}

(* The grouping of a chain a[1] b[1] a[2] ... when `*` and `/` bind tighter
   than `+` and `-` and each tier groups to the left: `sum` is the additive
   chain so far, `term` the multiplicative chain being read. *)
Join(sum, op, term) ==
  IF op = "" THEN term ELSE "(" \o sum \o " " \o op \o " " \o term \o ")"

RECURSIVE Grouped(_, _, _, _, _, _)
Grouped(a, b, i, sum, op, term) ==
  IF i > Len(a) THEN Join(sum, op, term)
  ELSE IF b[i - 1] \in MultiplicativeOps
       THEN Grouped(a, b, i + 1, sum, op,
                    "(" \o term \o " " \o b[i - 1] \o " " \o a[i] \o ")")
       ELSE Grouped(a, b, i + 1, Join(sum, op, term), b[i - 1], a[i])

RECURSIVE LeftNested(_, _, _)
LeftNested(a, b, i) ==
  IF i = 1 THEN a[1]
  ELSE "(" \o LeftNested(a, b, i - 1) \o " " \o b[i - 1] \o " " \o a[i] \o ")"

MixedTiers(d) ==
  /\ \E i \in 1..Len(d.b) : d.b[i] \in AdditiveOps
  /\ \E i \in 1..Len(d.b) : d.b[i] \in MultiplicativeOps

SameTier(d) ==
  /\ Len(d.b) >= 2
  /\ \/ \A i \in 1..Len(d.b) : d.b[i] \in AdditiveOps
     \/ \A i \in 1..Len(d.b) : d.b[i] \in MultiplicativeOps

(* C1: a chain of operands that mixes additive and multiplicative operators,
   as an attribute value or as an input-declaration value, is parsed without
   error, and its tree groups every `*` and `/` below the `+` and `-` around
   it: a op1 b op2 c is (a op1 (b op2 c)), a op2 b op1 c is ((a op2 b) op1 c). *)
C1_MultiplicativeBindsTighter ==
  (doc.family = "expr" /\ MixedTiers(doc)) =>
     /\ ~Failed
     /\ status = "accepted" =>
          /\ ValueNode.symbol = "sym_binary_expression"
          /\ Bracketed(ValueNode) = Grouped(doc.a, doc.b, 2, "", "", doc.a[1])

C1_Witness ==
  /\ status = "accepted"
  /\ doc.family = "expr" /\ doc.ctx = "attribute"
  /\ Len(doc.b) = 2 /\ doc.b[1] = "-" /\ doc.b[2] = "/"
  /\ Len(Children(ValueNode)) = 3
  /\ Text(Children(ValueNode)[2]) = "-"
  /\ Children(ValueNode)[3].symbol = "sym_binary_expression"
  /\ Text(Children(Children(ValueNode)[3])[2]) = "/"

(* C2: a chain whose operators are all of one tier is parsed without error
   and groups to the left, a op1 b op2 c being ((a op1 b) op2 c); and every
   binary_expression node ever built has exactly three children: an
   expression, an operator token, an expression. *)
C2_LeftAssociativeStrictlyBinary ==
  /\ (doc.family = "expr" /\ SameTier(doc)) =>
        /\ ~Failed
        /\ status = "accepted" =>
             Bracketed(ValueNode) = LeftNested(doc.a, doc.b, Len(doc.a))
  /\ \A n \in Reduced :
        n.symbol = "sym_binary_expression" =>
          /\ Len(StructuralChildren(n)) = 3
          /\ Len(Children(n)) = 3
          /\ IsNamed(Children(n)[1])
          /\ Children(n)[2].symbol \in OperatorTokens
          /\ IsNamed(Children(n)[3])

C2_Witness ==
  /\ status = "accepted"
  /\ doc.family = "expr" /\ doc.ctx = "commented"
  /\ Len(Comments(ValueNode)) = 2
  /\ Len(doc.b) = 2 /\ doc.b[1] = "*" /\ doc.b[2] = "/"
  /\ Len(Children(ValueNode)) = 3
  /\ Children(ValueNode)[1].symbol = "sym_binary_expression"
  /\ Text(Children(Children(ValueNode)[1])[2]) = "*"
  /\ Text(Children(ValueNode)[2]) = "/"

(* The identifier segments of a reference node, in order. *)
Segments(node) ==
  LET ids == SelectSeq(Children(node), LAMBDA c : c.symbol = "sym_identifier")
  IN  [i \in 1..Len(ids) |-> Text(ids[i])]

(* The operands of a tree of binary expressions, left to right. *)
RECURSIVE Operands(_)
Operands(node) ==
  IF node.symbol = "sym_binary_expression" /\ Len(Children(node)) = 3
  THEN Operands(Children(node)[1]) \o Operands(Children(node)[3])
  ELSE <<node>>

(* The identifiers a[1..] cut into runs at each `/` of b. *)
RECURSIVE SplitAtSlash(_, _, _, _, _)
SplitAtSlash(a, b, i, run, runs) ==
  IF i > Len(a) THEN Append(runs, run)
  ELSE IF b[i - 1] = "/"
       THEN SplitAtSlash(a, b, i + 1, <<a[i]>>, Append(runs, run))
       ELSE SplitAtSlash(a, b, i + 1, Append(run, a[i]), runs)

Runs(d) == SplitAtSlash(d.a, d.b, 2, <<d.a[1]>>, <<>>)

Dotted(run) == Chain(run, [i \in 1..(Len(run) - 1) |-> "."], "", 1)

(* C3 as stated: identifiers joined by `.` or `/` parse as one reference
   whose segments are the identifiers in order (a.b/c.d gives a, b, c, d). *)
C3_SlashJoinsSegments ==
  (doc.family = "ref" /\ status = "accepted") =>
     /\ ValueNode.symbol = "sym_reference"
     /\ Segments(ValueNode) = doc.a

(* C3 amended: only `.` joins the segments of a reference.  Identifiers
   joined by `.` or `/` are parsed without error; each run of identifiers
   joined by `.` is one reference with those segments in order, and each `/`
   is the operator of a binary_expression, grouped to the left: a.b/c.d is
   binary_expression(reference[a, b], /, reference[c, d]). *)
C3_OnlyDotJoinsSegments ==
  doc.family = "ref" =>
     /\ ~Failed
     /\ status = "accepted" =>
          LET runs == Runs(doc)
              operands == Operands(ValueNode)
          IN  /\ Len(operands) = Len(runs)
              /\ \A k \in 1..Len(runs) :
                    /\ operands[k].symbol = "sym_reference"
                    /\ Segments(operands[k]) = runs[k]
              /\ Bracketed(ValueNode)
                   = LeftNested([k \in 1..Len(runs) |-> Dotted(runs[k])],
                                [k \in 1..(Len(runs) - 1) |-> "/"], Len(runs))

C3_Witness ==
  /\ status = "accepted"
  /\ doc.family = "ref"
  /\ input = "input \"n\" = a.b/c.d"
  /\ ValueNode.symbol = "sym_binary_expression"
  /\ Text(Children(ValueNode)[2]) = "/"
  /\ Segments(Children(ValueNode)[1]) = <<"a", "b">>
  /\ Segments(Children(ValueNode)[3]) = <<"c", "d">>

StatementKind ==
  [addon |-> "sym_addon_block", signer |-> "sym_signer_block",
   action |-> "sym_action_block", output |-> "sym_output_block",
   variable |-> "sym_variable_declaration", input |-> "sym_input_declaration",
   import |-> "sym_import_statement"]

(* The statements of C4: those with a `name` position. *)
NamedStatement(d) ==
  d.family = "stmt" /\ d.ctx \in {"output", "variable", "signer", "action", "input"}

QuotedNames(d) == d.a[2] \in StringForms /\ d.a[3] \in StringForms \cup {""}

BareNames(d) == d.a[2] = "myout" /\ d.a[3] \in {"myout", ""}

(* C4 as stated: a statement whose name (and type) is written as a bare
   identifier is parsed without error, the `name` (and `type`) field being
   the identifier token. *)
C4_BareIdentifierNames ==
  (NamedStatement(doc) /\ BareNames(doc)) =>
     /\ ~Failed
     /\ status = "accepted" =>
          /\ Len(Statements) = 1
          /\ ts_node_child_by_field(Statements[1], "field_name").symbol = "sym_identifier"

(* C4 amended: the name and type positions accept string literals, in any
   of the three string forms, and nothing else.  With strings at both, the
   statement is parsed without error into the node of its kind, whose `name`
   (and, for signer and action, `type`) field is the string node; with a
   bare identifier at either, the identifier has no parse action there, no
   statement node is built and the input is not accepted. *)
C4_StringNames ==
  NamedStatement(doc) =>
     IF QuotedNames(doc)
     THEN /\ ~Failed
          /\ status = "accepted" =>
               /\ Len(Statements) = 1
               /\ Statements[1].symbol = StatementKind[doc.ctx]
               /\ LET names == ts_node_children_by_field(Statements[1], "field_name")
                      types == ts_node_children_by_field(Statements[1], "field_type")
                  IN  /\ Len(names) = 1
                      /\ names[1].symbol = "sym_string"
                      /\ Text(names[1]) = doc.a[2]
                      /\ names[1] = Children(Statements[1])[2]
                      /\ IF doc.ctx \in TypedKeywords
                         THEN /\ Len(types) = 1
                              /\ types[1].symbol = "sym_string"
                              /\ Text(types[1]) = doc.a[3]
                              /\ types[1] = Children(Statements[1])[3]
                         ELSE types = <<>>
     ELSE /\ status # "accepted"
          /\ \A n \in Reduced : n.symbol # StatementKind[doc.ctx]
          /\ (status = "parsing" /\ next_token.symbol = "sym_identifier") =>
                ParseAction(ts_stack_state(stack), next_token.symbol).type = "NONE"

C4_Witness ==
  /\ status = "accepted"
  /\ NamedStatement(doc) /\ doc.ctx = "action"
  /\ doc.a[2] = "\"x\"" /\ doc.a[3] = "'x'"
  /\ Statements[1].symbol = "sym_action_block"
  /\ Text(ts_node_child_by_field(Statements[1], "field_type")) = "'x'"

(* C5: `variable "x" { value = 1 }` is parsed without error into one
   variable_declaration whose `name` field is the string "x" and whose
   `config` field is a block with exactly one attribute, whose value is the
   number 1. *)
C5_Scenario1 ==
  input = "variable \"x\" { value = 1 }" =>
     /\ ~Failed
     /\ status = "accepted" =>
          /\ Len(Statements) = 1
          /\ Statements[1].symbol = "sym_variable_declaration"
          /\ LET name == ts_node_child_by_field(Statements[1], "field_name")
                 config == ts_node_child_by_field(Statements[1], "field_config")
                 attributes == SelectSeq(Children(config), LAMBDA c : IsNamed(c))
             IN  /\ name.symbol = "sym_string"
                 /\ Text(name) = "\"x\""
                 /\ config.symbol = "sym_block"
                 /\ Len(attributes) = 1
                 /\ attributes[1].symbol = "sym_attribute"
                 /\ ts_node_child_by_field(attributes[1], "field_value").symbol = "sym_number"
                 /\ Text(ts_node_child_by_field(attributes[1], "field_value")) = "1"

C5_Witness ==
  /\ status = "accepted"
  /\ input = "variable \"x\" { value = 1 }"
  /\ Statements[1].symbol = "sym_variable_declaration"
  /\ Text(ValueNode) = "1"

StringOpeners ==
  {"anon_sym_DQUOTE", "anon_sym_SQUOTE", "anon_sym_DQUOTE_DQUOTE_DQUOTE"}

CommentOpenerTokens ==
  {"anon_sym_POUND", "anon_sym_SLASH_SLASH", "anon_sym_SLASH_STAR"}

(* State 100 is the state after `import`, and after any comments that
   follow it. *)
AfterImport == status = "parsing" /\ ts_stack_state(stack) = 100

ImportShape(n) ==
  /\ Len(Children(n)) = 2
  /\ Children(n)[1].symbol = "anon_sym_import"
  /\ Children(n)[2].symbol = "sym_string"
  /\ ts_node_children_by_field(n, "field_path") = <<Children(n)[2]>>

(* C6 as stated: every import_statement has exactly two children (comments
   aside), the second a string with the field `path`, and after `import`
   every token that does not open a string has no parse action. *)
C6_OnlyStringAfterImport ==
  /\ \A n \in Reduced : n.symbol = "sym_import_statement" => ImportShape(n)
  /\ (AfterImport /\ next_token # NoToken /\ next_token.symbol \notin StringOpeners) =>
        ParseAction(ts_stack_state(stack), next_token.symbol).type = "NONE"

(* C6 amended: an import statement is `import` followed by exactly one
   string literal, in any of the three string forms, with comments allowed
   between them: it reduces to an import_statement node with exactly two
   children (comments aside), the second a string node carrying the field
   `path`; after `import`, a token that opens neither a string nor a comment
   (`#`, `//`, `/*`) has no parse action, and such an input is not accepted. *)
C6_StringOrCommentAfterImport ==
  /\ \A n \in Reduced : n.symbol = "sym_import_statement" => ImportShape(n)
  /\ (AfterImport /\ next_token # NoToken) =>
        IF next_token.symbol \in StringOpeners \cup CommentOpenerTokens
        THEN ParseAction(ts_stack_state(stack), next_token.symbol).type = "SHIFT"
        ELSE ParseAction(ts_stack_state(stack), next_token.symbol).type = "NONE"
  /\ (doc.family = "stmt" /\ doc.ctx = "import") =>
        IF doc.a[2] \in ImportPaths \cup CommentedPaths
        THEN /\ ~Failed
             /\ status = "accepted" =>
                  /\ Len(Statements) = 1
                  /\ Statements[1].symbol = "sym_import_statement"
                  /\ Len(Comments(Statements[1]))
                        = (IF doc.a[2] \in CommentedPaths THEN 1 ELSE 0)
                  /\ doc.a[2] \in ImportPaths =>
                        Text(ts_node_child_by_field(Statements[1], "field_path")) = doc.a[2]
        ELSE status # "accepted"

C6_Witness ==
  /\ status = "accepted"
  /\ input = "import /* c */ 'x'"
  /\ ImportShape(Statements[1])
  /\ Len(ts_node_children(Statements[1])) = 3
  /\ Text(ts_node_child_by_field(Statements[1], "field_path")) = "'x'"

BlockStatementKinds ==
  {"sym_addon_block", "sym_signer_block", "sym_action_block",
   "sym_output_block", "sym_variable_declaration"}

(* C7: every addon_block, signer_block, action_block, output_block and
   variable_declaration node ever built has exactly one child with the field
   `config`; that child is a block and is the node's last child. *)
C7_ConfigIsLastBlock ==
  \A n \in Reduced :
     n.symbol \in BlockStatementKinds =>
        LET config == ts_node_children_by_field(n, "field_config")
            all == ts_node_children(n)
        IN  /\ Len(config) = 1
            /\ config[1].symbol = "sym_block"
            /\ all # <<>> /\ config[1] = all[Len(all)]
            /\ \A k \in 1..(Len(all) - 1) : "field_config" \notin FieldsOf(n, all[k])

C7_Witness ==
  /\ status = "accepted"
  /\ doc.family = "stmt" /\ doc.ctx = "signer"
  /\ Statements[1].symbol = "sym_signer_block"
  /\ Len(Children(Statements[1])) = 4
  /\ ts_node_child_by_field(Statements[1], "field_config") = Children(Statements[1])[4]
  /\ Children(Statements[1])[4].symbol = "sym_block"

(* C8 as stated: every attribute node has its identifier under the field
   `name` and its expression under the field `value`. *)
C8_AttributeNameField ==
  \A n \in Reduced :
     n.symbol = "sym_attribute" =>
        /\ Len(Children(n)) = 3
        /\ Children(n)[1].symbol = "sym_identifier"
        /\ ts_node_children_by_field(n, "field_name") = <<Children(n)[1]>>
        /\ ts_node_children_by_field(n, "field_value") = <<Children(n)[3]>>

(* C8 amended: every attribute node (identifier = expression inside a
   block) has its identifier child under the field `key`, and under no
   field `name`, and its expression child under the field `value`. *)
C8_AttributeKeyField ==
  \A n \in Reduced :
     n.symbol = "sym_attribute" =>
        /\ Len(Children(n)) = 3
        /\ Children(n)[1].symbol = "sym_identifier"
        /\ Children(n)[2].symbol = "anon_sym_EQ"
        /\ IsNamed(Children(n)[3])
        /\ ts_node_children_by_field(n, "field_key") = <<Children(n)[1]>>
        /\ ts_node_children_by_field(n, "field_name") = <<>>
        /\ ts_node_children_by_field(n, "field_value") = <<Children(n)[3]>>

C8_Witness ==
  /\ status = "accepted"
  /\ input = "output \"x\" { value = 1 }"
  /\ FirstAttribute(Statements[1]).symbol = "sym_attribute"
  /\ Text(ts_node_child_by_field(FirstAttribute(Statements[1]), "field_key")) = "value"
  /\ Text(ts_node_child_by_field(FirstAttribute(Statements[1]), "field_value")) = "1"

(* The comments and statements at the top of the accepted runbook. *)
TopComments == Comments(tree)

(* C9: after `//` the comment runs to the end of the line and the statement
   on the next line is parsed as a statement: the input is parsed without
   error into one comment, whose text is the line, and one statement; and
   `# line`, `// line2`, `/* block */` on three lines before a statement
   give three comments and one statement. *)
C9_SlashSlashEndsAtNewline ==
  /\ (doc.family = "comment" /\ doc.a[1] = "//") =>
        /\ ~Failed
        /\ status = "accepted" =>
             /\ Len(TopComments) = 1
             /\ Text(TopComments[1]) = "//" \o doc.a[2]
             /\ Len(Statements) = 1
             /\ Statements[1].symbol = "sym_input_declaration"
  /\ doc.family = "scenario5" =>
        /\ ~Failed
        /\ status = "accepted" =>
             /\ Len(TopComments) = 3
             /\ Len(Statements) = 1

(* C10: after `#` the bytes up to the next line break are one content token,
   whatever they are: the input is parsed without error into one comment
   with exactly two children, the `#` and the content token, and the
   statement on the next line. *)
C10_PoundEndsAtNewline ==
  (doc.family = "comment" /\ doc.a[1] = "#") =>
     /\ ~Failed
     /\ status = "accepted" =>
          /\ Len(TopComments) = 1
          /\ Len(TopComments[1].children) = 2
          /\ TopComments[1].children[1].symbol = "anon_sym_POUND"
          /\ TopComments[1].children[2].symbol = "aux_sym_comment_token1"
          /\ Text(TopComments[1].children[2]) = doc.a[2]
          /\ Len(Statements) = 1
          /\ Statements[1].symbol = "sym_input_declaration"

(* C11: block comments nest.  `/* a /* b */ c */` before a statement is
   parsed without error into one comment, which spans all of it, and the
   statement. *)
C11_BlockCommentsNest ==
  doc.family = "nested" =>
     /\ ~Failed
     /\ status = "accepted" =>
          /\ Len(TopComments) = 1
          /\ Text(TopComments[1]) = "/* a /* b */ c */"
          /\ Len(Statements) = 1


(* C12: keywords are reserved in every lex state the parser can select: no
   identifier token is spelled like a keyword. *)
C12_KeywordsNeverIdentifiers ==
  Lexing =>
    \A i \in 1..Len(Tokens) :
       Tokens[i].symbol = "sym_identifier" => TokenText(Tokens[i]) \notin Keywords

KeywordSymbols ==
  {"anon_sym_addon", "anon_sym_signer", "anon_sym_action", "anon_sym_output",
   "anon_sym_variable", "anon_sym_input", "anon_sym_import", "anon_sym_true",
   "anon_sym_false", "sym_null"}

IsWordChar(c) ==
  \/ Ch("0") <= c /\ c <= Ch("9")
  \/ Ch("A") <= c /\ c <= Ch("Z")
  \/ c = Ch("_")
  \/ Ch("a") <= c /\ c <= Ch("z")

(* The token neither starts nor ends inside a run of word characters. *)
WholeRun(token) ==
  /\ token.start = 0 \/ ~IsWordChar(Lookahead(input, token.start - 1))
  /\ token.end >= Len(input) \/ ~IsWordChar(Lookahead(input, token.end))

(* C13: maximal munch.  In every lex state the parser can select, an
   identifier or keyword token covers the whole run of word characters it
   lies in: a keyword is never returned for the front of a longer run. *)
C13_MaximalMunch ==
  Lexing =>
    \A i \in 1..Len(Tokens) :
       Tokens[i].symbol \in KeywordSymbols \cup {"sym_identifier"} => WholeRun(Tokens[i])

NumberSymbols ==
  {"aux_sym_number_token1", "aux_sym_number_token2", "aux_sym_number_token3"}

(* The lex states of the parse states that expect an expression. *)
ExpressionStart == LexState = 2

(* The first call returned `symbol` over exactly the number written. *)
FirstTokenIs(symbol) ==
  /\ status # "lex_error" \/ Len(Tokens) >= 1
  /\ Len(Tokens) >= 1 =>
       /\ Tokens[1].symbol = symbol
       /\ Tokens[1].start = 0
       /\ Tokens[1].end = Len(doc.a[1])

RECURSIVE OnlyChars(_, _)
OnlyChars(text, chars) ==
  text = "" \/ (SubSeq(text, 1, 1) \in chars /\ OnlyChars(SubSeq(text, 2, Len(text)), chars))

DecimalChars == {"0", "1", "2", "3", "4", "5", "6", "7", "8", "9"}

HexChars ==
  DecimalChars \cup {"a", "b", "c", "d", "e", "f", "A", "B", "C", "D", "E", "F"}

(* The text of a number token is of the form of its kind; no form has a
   sign, and only the hex form has letters. *)
WellFormedNumber(token) ==
  LET text == TokenText(token)
  IN  CASE token.symbol = "aux_sym_number_token1" ->
             /\ Len(text) >= 3
             /\ SubSeq(text, 1, 2) = "0x"
             /\ OnlyChars(SubSeq(text, 3, Len(text)), HexChars)
        [] token.symbol = "aux_sym_number_token2" ->
             /\ Len(text) >= 3
             /\ OnlyChars(text, DecimalChars \cup {"."})
             /\ \E i \in 2..(Len(text) - 1) :
                  /\ SubSeq(text, i, i) = "."
                  /\ OnlyChars(SubSeq(text, 1, i - 1), DecimalChars)
                  /\ OnlyChars(SubSeq(text, i + 1, Len(text)), DecimalChars)
        [] token.symbol = "aux_sym_number_token3" ->
             Len(text) >= 1 /\ OnlyChars(text, DecimalChars)
        [] OTHER -> TRUE

(* C14: at an expression start `0x` and hex digits are one hex token, digits
   `.` digits one fractional token, digits alone (007 too) one integer
   token, each covering the whole number; in every lex state a number token
   is of one of these forms, so it has no sign and no exponent. *)
C14_NumberClassification ==
  Lexing =>
    /\ (ExpressionStart /\ doc.ctx = "number") =>
         /\ doc.a[1] \in HexTexts => FirstTokenIs("aux_sym_number_token1")
         /\ doc.a[1] \in FractionTexts => FirstTokenIs("aux_sym_number_token2")
         /\ doc.a[1] \in DecimalRuns => FirstTokenIs("aux_sym_number_token3")
    /\ \A i \in 1..Len(Tokens) : WellFormedNumber(Tokens[i])

(* 007, followed by an operator, was lexed at an expression start: the
   first call returned the three digits as one token. *)
C14_Witness ==
  /\ Lexing /\ ExpressionStart /\ status # "lexing"
  /\ doc.a[1] = "007" /\ doc.b[1] = " +"
  /\ Len(Tokens) = 1 /\ TokenText(Tokens[1]) = "007"

(* The string literal of a "string" document, as written. *)
Literal == doc.ctx \o doc.a[1] \o doc.ctx

(* The value of the input declaration is one string node over the whole
   literal, and between its delimiters lies the content as written. *)
StringAsWritten ==
  /\ ValueNode.symbol = "sym_string"
  /\ Text(ValueNode) = Literal
  /\ Len(Children(ValueNode)) >= 2
  /\ Text(Children(ValueNode)[1]) = doc.ctx
  /\ Text(Children(ValueNode)[Len(Children(ValueNode))]) = doc.ctx
  /\ Comments(ValueNode) = <<>>

(* C15: a double- or single-quoted string has no escapes and may span
   lines: whatever bytes stand between the opening delimiter and the next
   occurrence of the same character (backslashes and line breaks included)
   are the content, and the string parses without error. *)
C15_QuotedStringsVerbatim ==
  (doc.family = "string" /\ doc.ctx \in {"\"", "'"}) =>
     /\ ~Failed
     /\ status = "accepted" => StringAsWritten

(* C16: a triple-quoted string is raw: after the opening delimiter any
   bytes without a further triple quote are the content, the next triple
   quote closes the string, and the string parses without error. *)
C16_TripleQuotedRaw ==
  (doc.family = "string" /\ doc.ctx = "\"\"\"") =>
     /\ ~Failed
     /\ status = "accepted" => StringAsWritten

ContentTokens ==
  {"aux_sym_string_token1", "aux_sym_string_token2", "aux_sym_string_token3",
   "aux_sym_comment_token1", "aux_sym_comment_token2"}

(* The lex states of the parse states inside a string or a comment, where
   the bytes are content: those that shift a content token. *)
ContentLexStates ==
  {ts_lex_mode(s) : s \in {p \in DOMAIN ts_lex_modes \ {0} :
                             \E c \in ContentTokens : ParseAction(p, c).type = "SHIFT"}}

(* The bytes m..n of text, as far as it has them. *)
Part(text, m, n) ==
  IF m > Len(text) THEN "" ELSE SubSeq(text, m, IF n > Len(text) THEN Len(text) ELSE n)

(* Where the text starts after the skipped blanks, and the two bytes there. *)
SlashAt == IF Part(input, 1, 1) = " " THEN 1 ELSE 0

SlashPair == Part(input, SlashAt + 1, SlashAt + 2)

FirstTokenAt(symbol, start, end) ==
  /\ status # "lex_error" \/ Len(Tokens) >= 1
  /\ Len(Tokens) >= 1 =>
       /\ Tokens[1].symbol = symbol
       /\ Tokens[1].start = start
       /\ Tokens[1].end = end

(* C17: `/` is lexed greedily.  Outside string and comment content, `//` is
   returned as the `//` token and `/*` as the `/*` token, and in every lex
   state the division token `/` is returned only when the next character is
   neither `/` nor `*`. *)
C17_SlashGreedy ==
  Lexing =>
    /\ (doc.ctx = "slash" /\ LexState \notin ContentLexStates) =>
         /\ SlashPair = "//" => FirstTokenAt("anon_sym_SLASH_SLASH", SlashAt, SlashAt + 2)
         /\ SlashPair = "/*" => FirstTokenAt("anon_sym_SLASH_STAR", SlashAt, SlashAt + 2)
    /\ \A i \in 1..Len(Tokens) :
         Tokens[i].symbol = "anon_sym_SLASH" =>
            /\ TokenText(Tokens[i]) = "/"
            /\ Lookahead(input, Tokens[i].end) \notin {Ch("/"), Ch("*")}

(* `//a` after a blank was lexed where an operator is expected, and the
   first call returned `//`. *)
C17_Witness ==
  /\ Lexing /\ doc.ctx = "slash" /\ LexState = 1
  /\ input = " //a"
  /\ Len(Tokens) >= 1 /\ TokenText(Tokens[1]) = "//"

(* C18: the lexer is total and always makes progress: at every position
   before the end of the text, in every lex state the parser can select,
   the call returns a token, and the token ends past the position of the
   call. *)
C18_TotalAndProgress ==
  (Lexing /\ position < Len(input)) => status \notin {"lex_error", "stalled"}

Whitespace == {"\t", "\n", "\r", " "}

(* Where the token before Tokens[i] ended; 0 for the first. *)
EndBefore(i) == IF i = 1 THEN 0 ELSE Tokens[i - 1].end

(* A token follows what came before it: between the previous end and its
   start lies skipped whitespace and nothing else. *)
Follows(token, previous_end) ==
  /\ previous_end <= token.start
  /\ token.start <= token.end
  /\ token.end <= Len(input)
  /\ OnlyChars(Part(input, previous_end + 1, token.start), Whitespace)

LastEnd == IF Len(Tokens) = 0 THEN 0 ELSE Tokens[Len(Tokens)].end

(* The tokens in order and the whitespace skipped before each make up the
   text from its first byte to the end of the last token. *)
Contiguous ==
  /\ \A i \in 1..Len(Tokens) : Follows(Tokens[i], EndBefore(i))
  /\ status \in {"end", "stalled"} => Follows(next_token, LastEnd)

(* C20: round trip.  The spans of the tokens returned by successive calls
   and the whitespace skipped between them are contiguous and in order, and
   the calls go on to the end of the text, so that together they are the
   whole text. *)
C20_RoundTrip ==
  Lexing =>
    /\ Contiguous
    /\ status = "end" => next_token.end = Len(input)
    /\ status # "lex_error"

(* The actions the driver chooses from: those of the entry of the state on
   top of the stack for `symbol` that are not repetition shifts. *)
Choices(symbol) ==
  SelectSeq(ts_table_entry(ts_stack_state(stack), symbol), LAMBDA a : ~a.repetition)

StepNames ==
  {"LexToken", "LexError", "Shift", "Reduce", "ReduceExtra", "Accept", "SyntaxError"}

(* The condition under which each step is taken. *)
StepGuard(name) ==
  /\ status = "parsing"
  /\ CASE name = "LexToken" ->
             /\ next_token = NoToken
             /\ ts_lex_mode(ts_stack_state(stack)) # -1
             /\ Lex(input, ts_lex_mode(ts_stack_state(stack)), position).found
        [] name = "LexError" ->
             /\ next_token = NoToken
             /\ ts_lex_mode(ts_stack_state(stack)) # -1
             /\ ~Lex(input, ts_lex_mode(ts_stack_state(stack)), position).found
        [] name = "ReduceExtra" ->
             /\ next_token = NoToken
             /\ ts_lex_mode(ts_stack_state(stack)) = -1
             /\ Len(Choices("ts_builtin_sym_end")) >= 1
             /\ Choices("ts_builtin_sym_end")[1].type = "REDUCE"
        [] name = "Shift" ->
             /\ next_token # NoToken
             /\ \E i \in 1..Len(Choices(next_token.symbol)) :
                  Choices(next_token.symbol)[i].type = "SHIFT"
        [] name = "Reduce" ->
             /\ next_token # NoToken
             /\ \E i \in 1..Len(Choices(next_token.symbol)) :
                  Choices(next_token.symbol)[i].type = "REDUCE"
        [] name = "Accept" ->
             /\ next_token # NoToken
             /\ \E i \in 1..Len(Choices(next_token.symbol)) :
                  Choices(next_token.symbol)[i].type = "ACCEPT"
        [] OTHER ->
             /\ next_token # NoToken
             /\ \A i \in 1..Len(Choices(next_token.symbol)) :
                  Choices(next_token.symbol)[i].type = "RECOVER"

EnabledSteps == {name \in StepNames : StepGuard(name)}

StepTaken(name) ==
  CASE name = "LexToken" -> LexToken
    [] name = "LexError" -> LexError
    [] name = "Shift" -> Shift
    [] name = "Reduce" -> Reduce
    [] name = "ReduceExtra" -> ReduceExtra
    [] name = "Accept" -> Accept
    [] OTHER -> SyntaxError

OneChoice ==
  /\ Cardinality(EnabledSteps) <= 1
  /\ status = "parsing" => Cardinality(EnabledSteps) = 1
  /\ \A symbol \in Terminals : Len(Choices(symbol)) <= 1

(* C21: determinism.  The text, the position and the parse stack determine
   the next step: in every state at most one step of the lexer and parser
   is possible (exactly one while parsing goes on), in the state on top of
   the stack every token has at most one action to choose from, and the
   step taken is the possible one. *)
C21_Deterministic ==
  /\ []OneChoice
  /\ [][\A name \in StepNames : StepTaken(name) => EnabledSteps = {name}]_vars

(* The parser is at an entry that lists two actions, a reduction and a
   repetition shift, and has one step to take. *)
C21_Witness ==
  /\ status = "parsing"
  /\ next_token # NoToken
  /\ Len(ts_table_entry(ts_stack_state(stack), next_token.symbol)) = 2
  /\ EnabledSteps = {"Reduce"}

(* The outcome of the parse whose turn it is, and of the one waiting. *)
OutcomeHere == Outcome(status, position, stack, next_token, tree)

OutcomeThere ==
  Outcome(other.status, other.position, other.stack, other.next_token, other.tree)

(* C22: independent parses do not interfere.  However the steps of two
   parses of different texts are interleaved, each ends with the tokens,
   the stack and the tree it has when run alone. *)
C22_NoInterference ==
  other.status # "none" =>
    /\ status # "parsing" => OutcomeHere = ParseAlone(input)
    /\ other.status # "parsing" => OutcomeThere = ParseAlone(other.input)

(* Both parses have ended after their steps were interleaved: this one was
   accepted with a comment in its tree, the other stopped at `@`. *)
C22_Witness ==
  /\ other.status = "lex_error" /\ other.position > 0
  /\ status = "accepted" /\ Len(Comments(tree)) = 1

(* The parse states in which a number can be shifted: those that expect the
   start of an expression. *)
ExpressionStartStates ==
  {state \in 0..(STATE_COUNT - 1) :
     ParseAction(state, "aux_sym_number_token1").type = "SHIFT"}

(* The node the parser has on top of its stack, comments aside. *)
TopNode ==
  LET trees == Subtrees(stack)
      i == LastNonExtra(trees, Len(trees))
  IN  IF i = 0 THEN NullNode ELSE trees[i]

OpensWithSign(text) == Part(text, 1, 1) \in {"-", "("}

(* C23: no unary minus and no parenthesized grouping.  No parse state that
   expects the start of an expression has a shift or reduce action for `-`
   or `(`; a value that opens with one of them is not accepted; and `(` is
   shifted only when the node before it is the identifier of a call. *)
C23_NoUnaryMinusNoGrouping ==
  /\ \A state \in ExpressionStartStates :
       \A symbol \in {"anon_sym_DASH", "anon_sym_LPAREN"} :
         ~\E i \in 1..Len(ts_table_entry(state, symbol)) :
            ts_table_entry(state, symbol)[i].type \in {"SHIFT", "REDUCE"}
  /\ doc.family = "value" /\ OpensWithSign(doc.a[1]) => status # "accepted"
  /\ /\ status = "parsing"
     /\ next_token.symbol = "anon_sym_LPAREN"
     /\ ParseAction(ts_stack_state(stack), next_token.symbol).type = "SHIFT"
     => TopNode.symbol = "sym_identifier"

(* The parse of `-5` has stopped in a state that expects the start of an
   expression, with the `-5` unread. *)
C23_Witness ==
  /\ doc.family = "value" /\ doc.a[1] = "-5"
  /\ status # "parsing"
  /\ ts_stack_state(stack) \in ExpressionStartStates
  /\ Part(input, position + 1, Len(input)) = " -5"

(* The parse states in which the lexer is called between two tokens: not
   for the content of a string or of a comment, and not at the end of a
   comment (lex mode -1). *)
BetweenTokenStates ==
  {state \in 1..(STATE_COUNT - 1) : ts_lex_mode(state) \notin ContentLexStates \cup {-1}}

OpenerSymbol(opener) ==
  CASE opener = "#" -> "anon_sym_POUND"
    [] opener = "//" -> "anon_sym_SLASH_SLASH"
    [] OTHER -> "anon_sym_SLASH_STAR"

(* The states entered by shifting a comment opener: the next token is the
   content of a comment. *)
CommentStates ==
  {state \in 1..(STATE_COUNT - 1) :
     \E c \in {"aux_sym_comment_token1", "aux_sym_comment_token2"} :
        ParseAction(state, c).type = "SHIFT"}

LexesTo(result, symbol, length) ==
  result.found /\ result.symbol = symbol /\ result.start = 0 /\ result.end = length

StartsComment(action) == action.type = "SHIFT" /\ action.state \in CommentStates

OpensComment(state, opener) ==
  /\ LexesTo(Lex(opener \o " c", ts_lex_mode(state), 0), OpenerSymbol(opener), Len(opener))
  /\ StartsComment(ParseAction(state, OpenerSymbol(opener)))

(* C24: comments are accepted anywhere whitespace is.  In every parse state
   in which the lexer is called between two tokens, each of `#`, `//` and
   `/*` is lexed as its opener by the state's lex state and has a shift
   action into a state that expects the content of a comment.  The table is
   gone through once, before the first step of a parse, and the state a
   parse is in is looked at before each call of the lexer. *)
C24_CommentsAnywhere ==
  /\ status = "parsing" /\ stack = <<>> /\ next_token = NoToken =>
       \A state \in BetweenTokenStates :
         \A opener \in CommentOpeners : OpensComment(state, opener)
  /\ /\ status = "parsing"
     /\ next_token = NoToken
     /\ ts_stack_state(stack) \in BetweenTokenStates
     => \A opener \in CommentOpeners : OpensComment(ts_stack_state(stack), opener)

(* Between an operand and the operator after it, `/*` has been lexed and is
   about to be shifted. *)
C24_Witness ==
  /\ status = "parsing"
  /\ next_token.symbol = "anon_sym_SLASH_STAR"
  /\ ts_stack_state(stack) \in BetweenTokenStates
  /\ TopNode.symbol \in {"sym_number", "sym_identifier", "aux_sym_number_token3"}
  /\ StartsComment(ParseAction(ts_stack_state(stack), next_token.symbol))

IsArrayDoc == doc.family = "value" /\ doc.a[1] \in ArrayTexts

ArrayBody == Part(doc.a[1], 2, Len(doc.a[1]) - 1)

(* Expressions separated by single commas: no comma first, last, or next to
   another comma. *)
SingleCommas(body) ==
  \/ body = ""
  \/ /\ SubSeq(body, 1, 1) # ","
     /\ SubSeq(body, Len(body), Len(body)) # ","
     /\ ~Contains(body, ",,")

(* C25: an array literal is accepted exactly when it is `[`, zero or more
   expressions separated by single commas, `]`; with a comma directly
   before `]` (`[1,]`, `[,]`) it is not accepted. *)
C25_ArrayLiterals ==
  IsArrayDoc /\ status # "parsing" =>
    (status = "accepted" <=> SingleCommas(ArrayBody))

FunctionCalls == {node \in Reduced : node.symbol = "sym_function_call"}

(* The children of a call after its first that are nodes of their own
   kind: the argument expressions, without `(`, `,` and `)`. *)
ArgumentNodes(call) ==
  SelectSeq(SubSeq(Children(call), 2, Len(Children(call))), IsNamed)

ArgumentsField(call) == ts_node_children_by_field(call, "field_arguments")

NameFirst(call, kids) ==
  /\ kids[1].symbol = "sym_identifier"
  /\ ts_node_children_by_field(call, "field_name") = <<kids[1]>>

ArgumentsCovered(arguments, covered) ==
  /\ SelectSeq(covered, IsNamed) = arguments
  /\ arguments = <<>> => covered = <<>>

(* The call the document is written as, once the parse is accepted. *)
WrittenCall == ValueNode

(* C26: in every function_call node child 0 is the identifier, tagged
   `name`; the argument expressions are covered by the field `arguments` in
   left-to-right order; a call with no arguments has no child tagged
   `arguments`.  For a call written from given arguments these are, in
   order, the texts of the nodes the field covers. *)
C26_FunctionCallFields ==
  /\ \A call \in FunctionCalls :
       /\ NameFirst(call, Children(call))
       /\ ArgumentsCovered(ArgumentNodes(call), ArgumentsField(call))
  /\ doc.family = "call" /\ status = "accepted" =>
       /\ WrittenCall.symbol = "sym_function_call"
       /\ Len(ArgumentNodes(WrittenCall)) = Len(doc.a)
       /\ \A i \in 1..Len(doc.a) :
            Text(SelectSeq(ArgumentsField(WrittenCall), IsNamed)[i]) = doc.a[i]

(* A call of three arguments has been accepted: the field covers them and
   the two commas between them. *)
C26_Witness ==
  /\ doc.family = "call" /\ Len(doc.a) = 3
  /\ status = "accepted"
  /\ Len(ArgumentsField(WrittenCall)) = 5

StatementKeywordSymbols ==
  {"anon_sym_addon", "anon_sym_signer", "anon_sym_action", "anon_sym_output",
   "anon_sym_variable", "anon_sym_input", "anon_sym_import"}

CommentOpenerSymbols == {"anon_sym_POUND", "anon_sym_SLASH_SLASH", "anon_sym_SLASH_STAR"}

StatementSymbols ==
  {"sym_addon_block", "sym_signer_block", "sym_action_block", "sym_output_block",
   "sym_variable_declaration", "sym_input_declaration", "sym_import_statement"}

(* The parse states in which a statement can start: a statement keyword is
   shifted. *)
StatementStates ==
  {state \in 1..(STATE_COUNT - 1) : ParseAction(state, "anon_sym_input").type = "SHIFT"}

HasAction(state, symbol) == ts_table_entry(state, symbol) # <<>>

(* The table: accept is listed for the end of input only, in the state
   entered on sym_runbook from the start state; where a statement can start
   the tokens with an action are the seven keywords, the comment openers
   and the end of input. *)
AcceptOnlyAtEnd ==
  /\ \A state \in 0..(STATE_COUNT - 1) : \A symbol \in Terminals :
       ParseAction(state, symbol).type = "ACCEPT" =>
         symbol = "ts_builtin_sym_end" /\ state = ts_lookup(1, "sym_runbook")
  /\ \A state \in StatementStates :
       {symbol \in Terminals : HasAction(state, symbol)}
         = StatementKeywordSymbols \cup CommentOpenerSymbols \cup {"ts_builtin_sym_end"}

Blank(text) == \A i \in 1..Len(text) : SubSeq(text, i, i) \in {" ", "\n"}

(* C27: the parser accepts exactly at the end of the input, after zero or
   more complete statements.  Accept is taken only with the end of input as
   lookahead and a runbook on top of the stack; the empty input is accepted
   as a runbook without children; where a statement can start only the
   seven keywords, a comment opener and the end of input have an action (the
   table is gone through once, before the first step on the empty input);
   and of the texts made of statements and a last piece, those are accepted
   whose last piece is blank or a comment, each statement being a child of
   the runbook. *)
C27_AcceptAtEnd ==
  /\ input = "" /\ status = "parsing" /\ stack = <<>> /\ next_token = NoToken
       => AcceptOnlyAtEnd
  /\ status = "parsing" /\ next_token # NoToken
       /\ ParseAction(ts_stack_state(stack), next_token.symbol).type = "ACCEPT"
       => /\ next_token.symbol = "ts_builtin_sym_end"
          /\ TopNode.symbol = "sym_runbook"
  /\ status = "accepted" =>
       /\ next_token.symbol = "ts_builtin_sym_end"
       /\ next_token.start = Len(input)
       /\ tree.symbol = "sym_runbook"
       /\ \A i \in 1..Len(Statements) : Statements[i].symbol \in StatementSymbols
  /\ input = "" /\ status # "parsing" =>
       status = "accepted" /\ tree.symbol = "sym_runbook" /\ tree.children = <<>>
  /\ doc.family = "text" /\ status # "parsing" =>
       IF Blank(doc.ctx) \/ doc.ctx \in {"# c\n", "/* c */"}
       THEN /\ status = "accepted"
            /\ Len(Statements) = Len(doc.a)
            /\ \A i \in 1..Len(doc.a) : Text(Statements[i]) = doc.a[i]
       ELSE status # "accepted"

(* Three statements have been parsed and accept is the action for the end
   of input. *)
C27_Witness ==
  /\ doc.family = "text" /\ Len(doc.a) = 3
  /\ status = "parsing" /\ next_token.symbol = "ts_builtin_sym_end"
  /\ ParseAction(ts_stack_state(stack), next_token.symbol).type = "ACCEPT"
  /\ Len(Children(TopNode)) = 3

(* C28: on a block comment that is not closed before the end of the input,
   the lexer still returns a comment-content token, which holds the bytes
   from the opener to the end of the input. *)
C28_UnterminatedBlockComment ==
  doc.family = "open" /\ status # "parsing" =>
    \E node \in Reduced :
      /\ node.symbol = "aux_sym_comment_token2"
      /\ node.start = Len(doc.ctx)
      /\ node.end = Len(input)

(* C29: index access applies to a whole reference.  `a.b[0]` is parsed as
   an index_access whose base is the reference with the segments a and b
   and whose index is the expression 0. *)
C29_IndexAccessOnReference ==
  doc.family = "value" /\ doc.a[1] = "a.b[0]" /\ status # "parsing" =>
    /\ status = "accepted"
    /\ ValueNode.symbol = "sym_index_access"
    /\ Children(ValueNode)[1].symbol = "sym_reference"
    /\ Text(Children(ValueNode)[1]) = "a.b"
    /\ Text(Children(ValueNode)[3]) = "0"

StringOpenerSymbols == {"anon_sym_DQUOTE", "anon_sym_SQUOTE", "anon_sym_DQUOTE_DQUOTE_DQUOTE"}

(* The states entered by shifting a statement keyword. *)
KeywordStates ==
  {ParseAction(state, keyword).state :
     state \in StatementStates, keyword \in StatementKeywordSymbols}

(* The states entered on the name of a signer or of an action. *)
TypeStates ==
  {ts_lookup(ParseAction(state, keyword).state, "sym_string") :
     state \in StatementStates, keyword \in {"anon_sym_signer", "anon_sym_action"}}

ActionTokens(state) == {symbol \in Terminals : HasAction(state, symbol)}

(* C30: after each statement keyword, and after the name of a signer or of
   an action, the tokens with a parse action are the three string openers
   and the comment openers; an identifier has none.  The table is gone
   through once, before the first step on the empty input; in a parse, no
   other token is acted on in these states, and a statement with an
   identifier after the keyword or after the name stops there, the
   identifier not shifted. *)
C30_OnlyStringsAfterKeywords ==
  /\ input = "" /\ status = "parsing" /\ stack = <<>> /\ next_token = NoToken =>
       \A state \in KeywordStates \cup TypeStates :
         /\ ActionTokens(state) = StringOpenerSymbols \cup CommentOpenerSymbols
         /\ ~HasAction(state, "sym_identifier")
  /\ /\ status = "parsing"
     /\ next_token # NoToken
     /\ ts_stack_state(stack) \in KeywordStates \cup TypeStates
     /\ ParseAction(ts_stack_state(stack), next_token.symbol) # NoAction
     => next_token.symbol \in StringOpenerSymbols \cup CommentOpenerSymbols
  /\ doc.family = "stmt" /\ doc.a[2] = "myout" /\ status # "parsing" =>
       status = "syntax_error" /\ next_token.symbol = "sym_identifier"
  /\ /\ doc.family = "stmt"
     /\ doc.a[2] \in StringForms /\ doc.a[3] = "myout"
     /\ status # "parsing"
     => Failed /\ Part(input, position + 1, position + 6) = " myout"

(* `signer myout ...` has stopped in the state after the keyword, with the
   identifier as the lookahead. *)
C30_Witness ==
  /\ doc.family = "stmt" /\ doc.a[1] = "signer" /\ doc.a[2] = "myout"
  /\ status = "syntax_error"
  /\ next_token.symbol = "sym_identifier"
  /\ ts_stack_state(stack) \in KeywordStates

StringContentSymbols == {"aux_sym_string_token1", "aux_sym_string_token2"}

(* C31: inside a double- or single-quoted string every non-empty content
   without the closing delimiter is lexed as exactly one string-content
   token, the string having the three children open, content, close; no
   comment opener is lexed inside the string, whether the content is, or
   begins with, `#`, `//` or `/*`. *)
C31_StringContentOneToken ==
  doc.family = "string" /\ doc.ctx \in {"\"", "'"} /\ doc.a[1] # "" =>
    /\ \A node \in Reduced : node.symbol \notin CommentOpenerSymbols
    /\ status # "parsing" =>
         /\ ValueNode.symbol = "sym_string"
         /\ Len(ValueNode.children) = 3
         /\ ValueNode.children[2].symbol \in StringContentSymbols
         /\ Text(ValueNode.children[2]) = doc.a[1]

RepeatSymbols ==
  {"aux_sym_runbook_repeat1", "aux_sym_block_repeat1", "aux_sym_array_repeat1",
   "aux_sym_object_repeat1", "aux_sym_reference_repeat1"}

(* One action, or none, or the reduction of a repetition beside the shift
   that goes on with the repetition. *)
NoConflict(actions) ==
  \/ Len(actions) <= 1
  \/ /\ Len(actions) = 2
     /\ actions[1].type = "REDUCE" /\ actions[1].symbol \in RepeatSymbols
     /\ actions[2].type = "SHIFT" /\ actions[2].repetition

(* Every entry of the action list, and every cell of the table. *)
TableConflictFree ==
  /\ \A index \in DOMAIN ts_parse_actions : NoConflict(ts_parse_actions_at(index))
  /\ \A state \in 0..(STATE_COUNT - 1) : \A symbol \in Terminals :
       NoConflict(ts_table_entry(state, symbol))

(* C32: the parse table is conflict-free.  Every entry of ts_parse_actions
   holds one action, except those that pair the REDUCE of a repeat rule with
   a SHIFT_REPEAT (and the empty entry 0), none holds two reductions or a
   reduction beside a plain shift; so for the state on top of the stack and
   the lookahead there is at most one action to take.  The table is gone
   through once, before the first step on the empty input. *)
C32_ConflictFree ==
  /\ input = "" /\ status = "parsing" /\ stack = <<>> /\ next_token = NoToken =>
       TableConflictFree
  /\ status = "parsing" /\ next_token # NoToken =>
       /\ NoConflict(ts_table_entry(ts_stack_state(stack), next_token.symbol))
       /\ Len(Choices(next_token.symbol)) <= 1

(* After two statements the keyword of a third is the lookahead: the entry
   pairs the reduction of the repetition with a SHIFT_REPEAT. *)
C32_Witness ==
  /\ doc.family = "text" /\ Len(doc.a) = 3
  /\ status = "parsing" /\ next_token.symbol \in StatementKeywordSymbols
  /\ Len(ts_table_entry(ts_stack_state(stack), next_token.symbol)) = 2
  /\ ts_table_entry(ts_stack_state(stack), next_token.symbol)[1].symbol
       = "aux_sym_runbook_repeat1"

MaxReduceRun == 12

(* The reductions taken one after the other with the lookahead `symbol`
   (read at `at`) come to a shift, an accept or a missing action within
   `fuel` steps. *)
RECURSIVE ReduceRunNext(_, _, _, _)
ReduceRunEnds(stk, symbol, at, action, fuel) ==
  IF action.type # "REDUCE" THEN TRUE
  ELSE IF fuel = 0 THEN FALSE
  ELSE ReduceRunNext(ReduceStack(stk, action.symbol, action.child_count,
                                 action.production_id, FALSE, at),
                     symbol, at, fuel - 1)

ReduceRunNext(stk, symbol, at, fuel) ==
  ReduceRunEnds(stk, symbol, at, ParseAction(ts_stack_state(stk), symbol), fuel)

(* The cells of the table that reduce zero children. *)
EmptyReductions ==
  {<<state, symbol>> \in (0..(STATE_COUNT - 1)) \X Terminals :
     \E i \in 1..Len(ts_table_entry(state, symbol)) :
        /\ ts_table_entry(state, symbol)[i].type = "REDUCE"
        /\ ts_table_entry(state, symbol)[i].child_count = 0}

ReduceRunBounded ==
  /\ input = "" /\ status = "parsing" /\ stack = <<>> /\ next_token = NoToken =>
       /\ EmptyReductions = {<<1, "ts_builtin_sym_end">>}
       /\ ts_table_entry(1, "ts_builtin_sym_end") = <<REDUCE("sym_runbook", 0, 0)>>
  /\ status = "parsing" /\ next_token # NoToken =>
       ReduceRunNext(stack, next_token.symbol, next_token.start, MaxReduceRun)

(* C33: the shift/reduce automaton halts.  From the stack of a parse and
   its lookahead, at most MaxReduceRun reductions follow one another before
   a shift, an accept or a missing action; the only reduction of zero
   children is that of runbook on the end of input in the start state (the
   table is gone through once, before the first step on the empty input);
   and a parse that has not ended has a step to take. *)
C33_Halts ==
  /\ ReduceRunBounded
  /\ status = "parsing" => EnabledSteps # {}

(* With the end of the input as lookahead a chain of three operands has
   been reduced up to the runbook, and accept is next. *)
C33_Witness ==
  /\ doc.family = "expr" /\ Len(doc.a) = 3
  /\ status = "parsing" /\ next_token.symbol = "ts_builtin_sym_end"
  /\ TopNode.symbol = "sym_runbook"
  /\ ReduceRunNext(stack, next_token.symbol, next_token.start, 0)

(* The digits a text starts with. *)
RECURSIVE DigitsPrefix(_)
DigitsPrefix(text) ==
  IF text = "" \/ SubSeq(text, 1, 1) \notin DecimalChars THEN ""
  ELSE SubSeq(text, 1, 1) \o DigitsPrefix(SubSeq(text, 2, Len(text)))

(* A hex token has a digit after `0x`; a fractional token has a digit on
   each side of its `.`. *)
HasDigitPart(token) ==
  LET text == TokenText(token)
  IN  CASE token.symbol = "aux_sym_number_token1" ->
             Len(text) >= 3 /\ SubSeq(text, 3, 3) \in HexChars
        [] token.symbol = "aux_sym_number_token2" ->
             /\ Len(text) >= 3
             /\ SubSeq(text, 1, 1) \in DecimalChars
             /\ SubSeq(text, Len(text), Len(text)) \in DecimalChars
        [] OTHER -> TRUE

(* C34: no hex or fractional token has an empty digit part.  At an
   expression start `0x` that no hex digit follows is the integer token `0`
   and the next call starts at the `x`; digits and a `.` that no digit
   follows are the integer token of the digits and the next call starts at
   the `.`. *)
C34_NoEmptyDigitPart ==
  Lexing =>
    /\ \A i \in 1..Len(Tokens) : HasDigitPart(Tokens[i])
    /\ (ExpressionStart /\ doc.ctx = "number" /\ doc.a[1] \in IncompleteNumberTexts) =>
         /\ status = "lexing" \/ Len(Tokens) >= 1
         /\ Len(Tokens) >= 1 =>
              /\ Tokens[1].symbol = "aux_sym_number_token3"
              /\ Tokens[1].start = 0
              /\ TokenText(Tokens[1]) = DigitsPrefix(doc.a[1])
         /\ Len(Tokens) = 1 => position = Tokens[1].end
         /\ Len(Tokens) >= 2 => Tokens[2].start = Tokens[1].end

C34_Witness ==
  /\ Lexing /\ ExpressionStart
  /\ doc.a[1] = "0xg" /\ doc.b[1] = " +"
  /\ Len(Tokens) >= 2
  /\ TokenText(Tokens[1]) = "0"
  /\ TokenText(Tokens[2]) = "xg"

(* The token a lexer state accepts on entry, before it reads a byte. *)
StartAccept(state) == ts_lex(state, 0, FALSE).accept

Bytes == 1..127

ZeroLengthSymbols ==
  {"aux_sym_string_token1", "aux_sym_string_token2", "aux_sym_comment_token1"}

(* The lex states whose first state has an ACCEPT_TOKEN: ts_lex can return
   from them with the token ending where it starts. *)
ZeroLengthLexStates == {l \in SelectableLexStates : StartAccept(l) # NO_ACCEPT}

(* A SKIP moves the start of the token to the state it enters, and an
   ADVANCE at the end of the input reads no byte: neither enters a state
   that accepts a token other than the end of the input. *)
NoAcceptWithoutByte ==
  \A state \in 0..159 :
    /\ \A c \in Bytes :
         LET next == ts_lex(state, c, FALSE).next
         IN  next.op = "SKIP" => StartAccept(next.state) = NO_ACCEPT
    /\ LET next == ts_lex(state, 0, TRUE).next
       IN  next.op # "END_STATE" => StartAccept(next.state) = "ts_builtin_sym_end"

(* In the parse states that select such a lex state, the state a content
   token is shifted to selects a lex state outside them (or none). *)
ProgressAfterZeroLength ==
  \A state \in 0..(STATE_COUNT - 1), symbol \in ZeroLengthSymbols :
    LET action == ParseAction(state, symbol)
    IN  (ts_lex_mode(state) \in ZeroLengthLexStates /\ action.type = "SHIFT") =>
          ts_lex_mode(action.state) \notin ZeroLengthLexStates

ZeroLength(token) == token.symbol # "ts_builtin_sym_end" /\ token.end = token.start

(* C35: only the lex states 67, 71 and 146 (content of a double-quoted
   string, of a single-quoted string and of a `#` comment) can return a
   token of zero length other than the end of the input; the state entered
   by shifting such a token selects a lex state that cannot. *)
C35_ZeroLengthTokens ==
  /\ (input = "" /\ status = "parsing" /\ stack = <<>> /\ next_token = NoToken) =>
       /\ ZeroLengthLexStates = {67, 71, 146}
       /\ NoAcceptWithoutByte
       /\ ProgressAfterZeroLength
  /\ (status = "parsing" /\ next_token # NoToken /\ ZeroLength(next_token)) =>
       /\ ts_lex_mode(ts_stack_state(stack)) \in {67, 71, 146}
       /\ next_token.symbol \in ZeroLengthSymbols
       /\ ParseAction(ts_stack_state(stack), next_token.symbol).type = "SHIFT"
  /\ (stack # <<>> /\ stack[Len(stack)].subtree.children = <<>>
        /\ ZeroLength(stack[Len(stack)].subtree)) =>
       ts_lex_mode(ts_stack_state(stack)) \notin {67, 71, 146}

C35_Witness ==
  /\ doc.family = "string" /\ doc.ctx = "\"" /\ doc.a[1] = ""
  /\ status = "parsing" /\ next_token = NoToken
  /\ stack # <<>>
  /\ stack[Len(stack)].subtree.symbol = "aux_sym_string_token1"
  /\ ZeroLength(stack[Len(stack)].subtree)
  /\ ts_lex_mode(ts_stack_state(stack)) = 6

(* The states entered by shifting the first identifier of an expression. *)
IdentifierStates ==
  {ParseAction(state, "sym_identifier").state : state \in ExpressionStartStates}

(* The states entered by shifting `(`, and by shifting the `,` between two
   arguments. *)
ArgumentListStates ==
  {ParseAction(state, "anon_sym_LPAREN").state : state \in IdentifierStates}

ArgumentCommaStates ==
  {ParseAction(state, "anon_sym_COMMA").state :
     state \in {s \in 1..(STATE_COUNT - 1) :
                  /\ ParseAction(s, "anon_sym_RPAREN").type = "SHIFT"
                  /\ ParseAction(s, "anon_sym_COMMA").type = "SHIFT"}}

(* The table: `(` has an action, a shift, in the states entered on the
   first identifier of an expression and in no other parse state, and those
   states are entered in no other way (a comment returns to the state it
   was read in); `,` has no action after `(`, and
   neither `,` nor `)` after the `,` of an argument list. *)
CalleeIsIdentifier ==
  /\ {state \in 1..(STATE_COUNT - 1) : HasAction(state, "anon_sym_LPAREN")}
       = IdentifierStates
  /\ \A state \in IdentifierStates :
       ParseAction(state, "anon_sym_LPAREN").type = "SHIFT"
  /\ \A state \in 1..(STATE_COUNT - 1) : \A symbol \in Terminals :
       LET action == ParseAction(state, symbol)
       IN  (action.type = "SHIFT" /\ action.state \in IdentifierStates) =>
             symbol = "sym_identifier" /\ state \in ExpressionStartStates
  /\ \A state \in 1..(STATE_COUNT - 1) :
       \A i \in (TOKEN_COUNT + 1)..Len(ts_symbol_identifiers) :
         LET symbol == ts_symbol_identifiers[i]
         IN  ts_lookup(state, symbol) \in IdentifierStates =>
               symbol = "sym_comment" /\ ts_lookup(state, symbol) = state

SingleCommasInArguments ==
  /\ ArgumentListStates # {} /\ ArgumentCommaStates # {}
  /\ \A state \in ArgumentListStates : ~HasAction(state, "anon_sym_COMMA")
  /\ \A state \in ArgumentCommaStates :
       ~HasAction(state, "anon_sym_COMMA") /\ ~HasAction(state, "anon_sym_RPAREN")

(* The token at which the parse of a call of BadCalls must stop. *)
StopsAt(rest) ==
  /\ status # "accepted" /\ status # "lex_error"
  /\ status = "syntax_error" =>
       Part(input, next_token.start + 1, next_token.start + Len(rest)) = rest

(* C36: the callee of a call is one bare identifier.  `(` is shifted only
   in the state entered on the first identifier of an expression; after a
   dotted segment, an index access or a call `(` has no action, and an
   argument list with a leading comma, a comma before `)` or two commas in
   a row stops at that comma or `)` with no action. *)
C36_CalleeIsOneIdentifier ==
  /\ (input = "" /\ status = "parsing" /\ stack = <<>> /\ next_token = NoToken) =>
       CalleeIsIdentifier /\ SingleCommasInArguments
  /\ (status = "parsing" /\ next_token.symbol = "anon_sym_LPAREN"
        /\ ParseAction(ts_stack_state(stack), next_token.symbol).type = "SHIFT") =>
       /\ TopNode.symbol = "sym_identifier"
       /\ ts_stack_state(stack) \in IdentifierStates
  /\ doc.family = "value" =>
       \A call \in BadCalls : doc.a[1] = call[1] => StopsAt(call[2])

C36_Witness ==
  /\ doc.family = "value" /\ doc.a[1] = "a.b(1)"
  /\ status = "syntax_error"
  /\ next_token.symbol = "anon_sym_LPAREN"
  /\ Part(input, next_token.start - 2, next_token.start) = "a.b"

(* Fields separated by single commas, with or without a comma after the
   last; or no field at all, with or without a comma. *)
WellFormedObject(items) ==
  \/ items = <<",">>
  \/ \A i \in 1..Len(items) : (items[i] = ",") <=> (i % 2 = 0)

ObjectFields(object) ==
  SelectSeq(Children(object), LAMBDA c : c.symbol = "sym_object_field")

FieldTexts(items) == SelectSeq(items, LAMBDA item : item # ",")

(* An object_field is key, `:`, value: three children, child 0 under `key`
   and child 2 under `value`. *)
FieldShape(field) ==
  /\ Len(StructuralChildren(field)) = 3
  /\ ts_node_children_by_field(field, "field_key") = <<Children(field)[1]>>
  /\ ts_node_children_by_field(field, "field_value") = <<Children(field)[3]>>
  /\ Children(field)[1].symbol \in {"sym_string", "sym_identifier"}
  /\ Children(field)[2].symbol = "anon_sym_COLON"

(* Every reduction to object_field in the table takes three children, with
   a production whose fields are key on child 0 and value on child 2. *)
ObjectFieldReductions ==
  \A state \in 1..(STATE_COUNT - 1) : \A symbol \in Terminals :
    LET action == ParseAction(state, symbol)
    IN  (action.type = "REDUCE" /\ action.symbol = "sym_object_field") =>
          /\ action.child_count = 3
          /\ ts_field_map(action.production_id)
               = <<[field_id |-> "field_key", child_index |-> 0],
                   [field_id |-> "field_value", child_index |-> 2]>>

(* The states in which a field can start, and the states entered on its
   key. *)
FieldStartStates ==
  {state \in 1..(STATE_COUNT - 1) : ts_lookup(state, "sym_object_field") # 0}

KeyStates ==
  {ParseAction(state, "sym_identifier").state : state \in FieldStartStates}
    \cup {ts_lookup(state, "sym_string") : state \in FieldStartStates}

(* After a key only `:` and the comment openers have an action; after the
   closing quote of a string no number has one. *)
ColonAfterKey ==
  /\ KeyStates # {}
  /\ \A state \in KeyStates :
       {symbol \in Terminals : HasAction(state, symbol)}
         = {"anon_sym_COLON"} \cup CommentOpenerSymbols

(* C37: an object literal is accepted exactly when it is `{`, fields
   separated by single commas with at most one comma after the last, `}`,
   or `{,}`; a second comma in a row and a field without `:` stop the parse
   with no action; each object_field has three children, the key (a string
   or an identifier) under `key` and the value under `value`. *)
C37_ObjectLiterals ==
  /\ (input = "" /\ status = "parsing" /\ stack = <<>> /\ next_token = NoToken) =>
       ObjectFieldReductions /\ ColonAfterKey
  /\ (doc.family = "object" /\ status # "parsing") =>
       /\ status = "accepted" <=> WellFormedObject(doc.a)
       /\ status = "accepted" =>
            /\ ValueNode.symbol = "sym_object"
            /\ Len(ObjectFields(ValueNode)) = Len(FieldTexts(doc.a))
            /\ \A i \in 1..Len(ObjectFields(ValueNode)) :
                 /\ FieldShape(ObjectFields(ValueNode)[i])
                 /\ Text(ObjectFields(ValueNode)[i]) = FieldTexts(doc.a)[i]
  /\ \A node \in Reduced : node.symbol = "sym_object_field" => FieldShape(node)
  /\ doc.family = "value" =>
       \A object \in BadObjects : doc.a[1] = object[1] => StopsAt(object[2])
  /\ (doc.family = "value" /\ doc.a[1] \in LongObjects /\ status # "parsing") =>
       status = "accepted" /\ ValueNode.symbol = "sym_object"
  /\ (doc.family = "value" /\ doc.a[1] = KeyThenValue /\ status # "parsing") =>
       /\ status = "lex_error"
       /\ Part(input, position + 1, position + 3) = " 1}"
       /\ \A symbol \in NumberSymbols : ~HasAction(ts_stack_state(stack), symbol)

C37_Witness ==
  /\ doc.family = "object" /\ doc.ctx = "attribute"
  /\ doc.a = <<"k: 1", ",", "\"s\": a.b">>
  /\ status = "accepted"
  /\ Len(ObjectFields(ValueNode)) = 2
  /\ Text(ts_node_child_by_field(ObjectFields(ValueNode)[2], "field_key")) = "\"s\""
  /\ Text(ts_node_child_by_field(ObjectFields(ValueNode)[2], "field_value")) = "a.b"

(* The state entered by `=` after the key of an attribute (state 133) and
   after the name of an input declaration (state 146): where the value
   starts. *)
AttributeValueStart == ParseAction(133, "anon_sym_EQ").state

InputValueStart == ParseAction(146, "anon_sym_EQ").state

(* The symbols of the grammar proper: every symbol but the comment and its
   openers, which any state takes. *)
GrammarSymbols ==
  {ts_symbol_identifiers[i] : i \in 1..Len(ts_symbol_identifiers)}
    \ (CommentOpenerSymbols \cup {"sym_comment"})

(* The state entered from `state` on `symbol` by a shift or a goto; -1 when
   there is none. *)
Successor(state, symbol) ==
  IF symbol \in Terminals
  THEN LET action == ParseAction(state, symbol)
       IN  IF action.type = "SHIFT" THEN action.state ELSE -1
  ELSE IF ts_lookup(state, symbol) = 0 THEN -1 ELSE ts_lookup(state, symbol)

PairSuccessors(pair) ==
  {<<Successor(pair[1], symbol), Successor(pair[2], symbol)>> : symbol \in GrammarSymbols}
    \ {p \in {-1} \X ((-1)..(STATE_COUNT - 1)) \cup ((-1)..(STATE_COUNT - 1)) \X {-1} : TRUE}

(* The pairs of states the two parses are in after the same tokens of the
   value, from the pair in `frontier` on. *)
RECURSIVE PairedStates(_, _)
PairedStates(pairs, frontier) ==
  IF frontier = {} THEN pairs
  ELSE LET found == UNION {PairSuccessors(pair) : pair \in frontier}
       IN  PairedStates(pairs \cup found, found \ pairs)

ValuePairs ==
  PairedStates({<<AttributeValueStart, InputValueStart>>},
               {<<AttributeValueStart, InputValueStart>>})

(* The pair in which the value is complete: the goto on _expression. *)
ValueEndPair ==
  <<Successor(AttributeValueStart, "sym__expression"),
    Successor(InputValueStart, "sym__expression")>>

SamePrimary(pair) == ts_primary_state_id(pair[1]) = ts_primary_state_id(pair[2])

(* Paired states shift and go to on the same symbols, and where both list a
   reduction for a token it is the same reduction. *)
SameMoves(pair) ==
  /\ \A symbol \in GrammarSymbols :
       (Successor(pair[1], symbol) = -1) <=> (Successor(pair[2], symbol) = -1)
  /\ \A symbol \in Terminals :
       LET here == ParseAction(pair[1], symbol)
           there == ParseAction(pair[2], symbol)
       IN  (here.type = "REDUCE" /\ there.type = "REDUCE" /\ pair # ValueEndPair) =>
             here = there

(* The value of the first statement of the tree `root`. *)
ValueIn(root) ==
  IF Children(root) = <<>> THEN NullNode
  ELSE IF Children(root)[1].symbol = "sym_input_declaration"
       THEN ts_node_child_by_field(Children(root)[1], "field_value")
       ELSE ts_node_child_by_field(FirstAttribute(Children(root)[1]), "field_value")

(* A tree without its offsets: symbols, productions and the text covered. *)
RECURSIVE Shape(_, _)
Shape(node, text) ==
  [symbol |-> node.symbol, production_id |-> node.production_id,
   text |-> SubSeq(text, node.start + 1, node.end),
   children |-> [i \in 1..Len(node.children) |-> Shape(node.children[i], text)]]

ExpressionFamilies == {"expr", "ref", "value", "call", "object"}

(* The node reached from `node` by taking the children numbered in `path`. *)
RECURSIVE Descend(_, _)
Descend(node, path) ==
  IF path = <<>> THEN node
  ELSE Descend(Children(node)[Head(path)], Tail(path))

(* The parse at hand and the parse of `text` end alike, with the same tree
   for the value, which in `text` is found in the value along `path`. *)
SameValue(there, text, path) ==
  /\ (status = "accepted") <=> (there.status = "accepted")
  /\ status = "accepted" =>
       Shape(ValueNode, input) = Shape(Descend(ValueIn(there.tree), path), text)

SameAs(text, path) == SameValue(ParseAlone(text), text, path)

AsInput(d) == Render([d EXCEPT !.ctx = "input"])

Written(d) == Part(AsInput(d), Len(InContext("input", "")) + 1, Len(AsInput(d)))

(* The value of an attribute against the same text as the value of an input
   declaration, as the element of an array, as the argument of a call and
   as the index of an index access. *)
SameTreeInBothContexts ==
  (doc.family \in ExpressionFamilies /\ doc.ctx = "attribute" /\ status # "parsing") =>
    /\ SameAs(AsInput(doc), <<>>)
    /\ (doc.family = "expr" /\ status = "accepted") =>
         /\ SameAs(InContext("input", "[" \o Written(doc) \o "]"), <<2>>)
         /\ SameAs(InContext("input", "f(" \o Written(doc) \o ")"), <<3>>)
         /\ SameAs(InContext("input", "a[" \o Written(doc) \o "]"), <<1, 3>>)

(* C38 as stated: the same tree in both contexts, and every pair of states
   the two parses are in has the same primary state. *)
C38_SameGrammarInBothContexts ==
  /\ (input = "" /\ status = "parsing" /\ stack = <<>> /\ next_token = NoToken) =>
       \A pair \in ValuePairs : SameMoves(pair) /\ SamePrimary(pair)
  /\ SameTreeInBothContexts

(* C38, amended: an expression has the same tree as attribute value, as
   input value, as array element, as argument and as index.  The states of
   the two parses are paired from the start of the value on; paired states
   have the same moves, and the same primary state except in the pair that
   starts the value and the pair that holds the complete value. *)
C38_SameGrammarButValueStates ==
  /\ (input = "" /\ status = "parsing" /\ stack = <<>> /\ next_token = NoToken) =>
       /\ \A pair \in ValuePairs :
            /\ SameMoves(pair)
            /\ SamePrimary(pair)
                 <=> pair \notin {<<AttributeValueStart, InputValueStart>>, ValueEndPair}
       /\ \E pair \in ValuePairs : pair[1] # pair[2] /\ SamePrimary(pair)
  /\ SameTreeInBothContexts

C38_Witness ==
  /\ doc.family = "expr" /\ doc.ctx = "attribute" /\ Len(doc.a) = 3
  /\ status = "accepted"
  /\ ValueNode.symbol = "sym_binary_expression"
  /\ SameAs(AsInput(doc), <<>>)
  /\ <<47, 21>> \in ValuePairs
=============================================================================
